---- MODULE Spec2Model ----
(***************************************************************************)
(* Model of the Notion help-centre dataset builder:                        *)
(*   - datajobs/notion/scrape.py : is_valid_url, get_canonical_url,        *)
(*     make_request (retry with exponential backoff) and scrape (the       *)
(*     breadth-first crawl loop);                                          *)
(*   - utils/parser/html_parser.py : HtmlParser (tags -> nodes -> chunks). *)
(* URL strings are TLA+ strings; texts of the parser are sequences of      *)
(* one-character strings.                                                  *)
(***************************************************************************)
EXTENDS Integers, Sequences, FiniteSets, TLC

VARIABLES
    \* ---- scrape() ----
    pc,              \* position of scrape(): "idle" (not called), "start", "loop",
                     \* "fetch", "links", "done", "ValueError"
    root_url,        \* argument of scrape()
    queue,           \* OrderedDict used as FIFO: sequence of URL strings, no duplicates
    visited_urls,
    failed_urls,
    skipped_urls,
    valid_results,   \* dict url -> RawPage, as a function
    url,             \* URL popped by the current iteration
    links,           \* hrefs of the current page still to be processed
    written,         \* the records handed to write_to_json, in order
    \* ---- make_request() ----
    mr_pc,           \* "idle", "while", "sleep", "returned", "raised"
    mr_url,
    attempt,
    max_attempts,
    backoff_factor,
    delay,
    response,        \* value returned by make_request (NoResponse until it returns)
    error,           \* exception raised by make_request (NoError until it raises)
    trace,           \* GET requests and sleeps of the current make_request call, in order
    \* ---- history of the crawl ----
    enq_log,         \* URLs in the order they were put into the queue
    fetch_log,       \* URLs in the order scrape() passed them to make_request
    \* ---- HtmlParser ----
    hp_pc,           \* "idle", "split", "convert", "combine", "loop", "done"
    hp_call,         \* the method the client called: "parse" or "_combine_nodes_into_chunks"
    chunk_size,
    chunk_size_buffer,
    hp_text,         \* argument text of parse(): the markup, as a sequence of elements
    hp_url,          \* argument url
    tags,            \* result of _split_text_into_tags
    tags_left,       \* tags the loop of _convert_tags_to_nodes has not reached yet
    nodes,           \* list of Node
    nodes_left,      \* nodes the loop of _combine_nodes_into_chunks has not reached yet
    chunks,          \* list of Chunk
    current_chunk,
    \* ---- transform.py ----
    tr_pc,           \* "idle", "start", "loop", "articles", "parse", "done", or the error
                     \* with which the function ended
    tr_call,         \* the function called
    openai_parser_given,  \* the argument openai_parser is not None
    api_key,         \* OPENAI_API_KEY of the environment ("" when it is not set)
    target_urls,     \* argument target_urls (<<>> for None)
    raw_results,     \* raw_data["results"]: dict url -> RawPage, in the order of the file
    tr_left,         \* items the loop over raw_data["results"] has not reached yet
    tr_url,          \* URL of the current iteration
    articles_left,   \* articles of the current page not parsed yet
    page_chunks,
    url_to_chunks,   \* dict url -> list of chunks
    tr_skipped_urls, \* the list skipped_urls of the transform
    tr_written,      \* the records handed to write_to_json, in order
    \* ---- get_canonical_url() called on its own ----
    cu_pc,           \* "idle", "call", "once", "twice", "ValueError"
    cu_url,          \* the argument, a sequence of characters
    cu_canonical,    \* get_canonical_url(cu_url)
    cu_twice         \* get_canonical_url(cu_canonical)

scrape_vars == <<pc, root_url, queue, visited_urls, failed_urls, skipped_urls,
                 valid_results, url, links, written, enq_log, fetch_log>>
mr_vars == <<mr_pc, mr_url, attempt, max_attempts, backoff_factor, delay,
             response, error, trace>>
hp_vars == <<hp_pc, hp_call, chunk_size, chunk_size_buffer, hp_text, hp_url, tags, tags_left,
             nodes, nodes_left, chunks, current_chunk>>
tr_vars == <<tr_pc, tr_call, openai_parser_given, api_key, target_urls, raw_results, tr_left,
             tr_url, articles_left, page_chunks, url_to_chunks, tr_skipped_urls, tr_written>>
cu_vars == <<cu_pc, cu_url, cu_canonical, cu_twice>>
vars == <<scrape_vars, mr_vars, hp_vars, tr_vars, cu_vars>>

-----------------------------------------------------------------------------
(* Bounds of the model *)

MaxLinks == 2          \* anchors per page
MaxAttemptsBound == 4  \* largest max_attempts given to make_request directly
MaxBackoff == 2        \* largest backoff_factor given to make_request directly

-----------------------------------------------------------------------------
(* URL strings and urllib.parse.urlparse *)

NOTION_DOMAIN == "notion.so"

\* href of an anchor without href attribute: link.get("href") is None
None == "None"

\* an href that urlparse rejects (ValueError: Invalid IPv6 URL)
BadHref == "http://["

\* hrefs that occur on the pages of the modelled site
Hrefs == { "/help", "//www.notion.so/help/a?x=1#f", "/blog", None, BadHref }

\* seeds handed to scrape()
RootUrls == { "https://notion.so/help", "https://www.notion.so/help?x",
              "https://notion.so/blog", "https://notion.so/help/notion-academy" }

\* urlparse(u).path for the strings of the model (formatted as the f-string of
\* get_canonical_url formats it: the path of None is the bytes object b'')
urlparse_path(u) ==
    CASE u = "/help"                                 -> "/help"
      [] u = "/help/a"                               -> "/help/a"
      [] u = "//www.notion.so/help/a?x=1#f"          -> "/help/a"
      [] u = "/blog"                                 -> "/blog"
      [] u = "help/c"                                -> "help/c"
      [] u = None                                    -> "b''"
      [] u = "https://notion.so/help"                -> "/help"
      [] u = "https://www.notion.so/help?x"          -> "/help"
      [] u = "https://notion.so/blog"                -> "/blog"
      [] u = "https://notion.so/help/notion-academy" -> "/help/notion-academy"
      [] u = "https://notion.so/help/a"              -> "/help/a"
      [] u = "https://notion.sohelp/c"               -> "/c"
      [] u = "https://notion.so/c"                   -> "/c"
      [] u = "https://notion.sob''"                  -> ""
      [] u = "https://notion.so"                     -> ""

\* urlparse(u) raises ValueError
urlparse_raises(u) == u = BadHref

\* path.startswith("/help")
StartsWithHelp(path) ==
    path \in { "/help", "/help/a", "/help/notion-academy" }

\* "notion-academy" in path
ContainsAcademy(path) == path \in { "/help/notion-academy" }

is_valid_url(u) ==
    StartsWithHelp(urlparse_path(u)) /\ ~ContainsAcademy(urlparse_path(u))

get_canonical_url(u) == "https://" \o NOTION_DOMAIN \o urlparse_path(u)

\* truth value of a Python string
Truthy(s) == s # ""

\* the exception with which scrape() ends when urlparse rejects an href
UrlparseError == "ValueError: Invalid IPv6 URL"

\* the sequences over S of length n at most
RECURSIVE SeqsUpTo(_, _)
SeqsUpTo(S, n) ==
    IF n = 0 THEN { <<>> }
    ELSE LET shorter == SeqsUpTo(S, n - 1)
         IN  shorter \cup { Append(s, x) : s \in { t \in shorter : Len(t) = n - 1 }, x \in S }

-----------------------------------------------------------------------------
(* urllib.parse.urlparse and get_canonical_url on sequences of characters *)

MaxUrlLen == 4   \* longest URL string handed to get_canonical_url directly

\* a letter, and the delimiters urlparse looks for
UrlChars == { "h", "/", ":", "?", "#", ";", "[" }

UrlStrings == SeqsUpTo(UrlChars, MaxUrlLen)

\* str.find: the first position of c in t, 0 when there is none
Find(t, c) ==
    IF \E i \in 1..Len(t) : t[i] = c
    THEN CHOOSE i \in 1..Len(t) : t[i] = c /\ \A j \in 1..(i - 1) : t[j] # c
    ELSE 0

\* the letters of the model, and urllib's scheme_chars among its characters
IsAlpha(c) == c \in { "h", "t", "p", "s", "n", "o", "i" }
IsSchemeChar(c) == IsAlpha(c) \/ c = "."

HTTP == << "h", "t", "t", "p" >>
HTTPS == << "h", "t", "t", "p", "s" >>

\* urllib's uses_params, as far as the schemes of the model go
uses_params == { <<>>, HTTP, HTTPS }

\* f"https://{NOTION_DOMAIN}"
CanonicalPrefix ==
    HTTPS \o << ":", "/", "/", "n", "o", "t", "i", "o", "n", ".", "s", "o" >>

\* _splitparams(url): the parameters after the first ";" of the last segment
splitparams_path(t) ==
    LET slashes == { i \in 1..Len(t) : t[i] = "/" }
        last == IF slashes = {} THEN 0
                ELSE CHOOSE i \in slashes : \A j \in slashes : j <= i
        semis == { i \in (last + 1)..Len(t) : t[i] = ";" }
    IN  IF semis = {} THEN t
        ELSE SubSeq(t, 1, (CHOOSE i \in semis : \A j \in semis : i <= j) - 1)

\* urlparse(url): scheme, netloc and path, and whether it raises ValueError
\* ("Invalid IPv6 URL": a netloc with one bracket only)
urlparse(t) ==
    LET colon == Find(t, ":")
        has_scheme == /\ colon > 1
                      /\ IsAlpha(t[1])
                      /\ \A k \in 1..(colon - 1) : IsSchemeChar(t[k])
        scheme == IF has_scheme THEN SubSeq(t, 1, colon - 1) ELSE <<>>
        url1 == IF has_scheme THEN SubSeq(t, colon + 1, Len(t)) ELSE t
        has_netloc == Len(url1) >= 2 /\ url1[1] = "/" /\ url1[2] = "/"
        delims == { i \in 3..Len(url1) : url1[i] \in { "/", "?", "#" } }
        delim == IF delims = {} THEN Len(url1) + 1
                 ELSE CHOOSE i \in delims : \A j \in delims : i <= j
        netloc == IF has_netloc THEN SubSeq(url1, 3, delim - 1) ELSE <<>>
        url2 == IF has_netloc THEN SubSeq(url1, delim, Len(url1)) ELSE url1
        hash == Find(url2, "#")
        url3 == IF hash > 0 THEN SubSeq(url2, 1, hash - 1) ELSE url2
        mark == Find(url3, "?")
        url4 == IF mark > 0 THEN SubSeq(url3, 1, mark - 1) ELSE url3
    IN  [raises |-> Find(netloc, "[") > 0 /\ Find(netloc, "]") = 0,
         scheme |-> scheme,
         netloc |-> netloc,
         path |-> IF scheme \in uses_params THEN splitparams_path(url4) ELSE url4]

\* get_canonical_url(url) for a URL that urlparse accepts
get_canonical_url_chars(t) == CanonicalPrefix \o urlparse(t).path

\* get_canonical_url(url) is called
CanonicalCall ==
    /\ cu_pc = "call"
    /\ IF urlparse(cu_url).raises
       THEN cu_pc' = "ValueError" /\ UNCHANGED cu_canonical
       ELSE cu_pc' = "once" /\ cu_canonical' = get_canonical_url_chars(cu_url)
    /\ UNCHANGED <<cu_url, cu_twice>>
    /\ UNCHANGED <<scrape_vars, mr_vars, hp_vars, tr_vars>>

\* get_canonical_url is called on its own result
CanonicalCallAgain ==
    /\ cu_pc = "once"
    /\ IF urlparse(cu_canonical).raises
       THEN cu_pc' = "ValueError" /\ UNCHANGED cu_twice
       ELSE cu_pc' = "twice" /\ cu_twice' = get_canonical_url_chars(cu_canonical)
    /\ UNCHANGED <<cu_url, cu_canonical>>
    /\ UNCHANGED <<scrape_vars, mr_vars, hp_vars, tr_vars>>

-----------------------------------------------------------------------------
(* HTTP *)

\* a page body, reduced to the hrefs of its anchors in document order; a page of
\* the modelled site carries each href at most once
Bodies == { b \in SeqsUpTo(Hrefs, MaxLinks) : \A i, j \in 1..Len(b) : i # j => b[i] # b[j] }

\* status codes a server answers with; only a 200 carries a page
StatusCodes == { 200, 304, 404 }

\* outcomes of requests.get: a response, or a connection error
ConnectionError == [kind |-> "ConnectionError", status_code |-> 0, text |-> <<>>, attempt |-> 0]
NoResponse == [kind |-> "None", status_code |-> 0, text |-> <<>>, attempt |-> 0]
NoError == [kind |-> "NoError", status_code |-> 0, attempt |-> 0]

\* Response.raise_for_status raises HTTPError for 4xx and 5xx
raise_for_status_raises(status_code) == status_code >= 400 /\ status_code < 600

\* what one requests.get(url) can produce at attempt n
GetOutcomes(n) ==
    { [kind |-> "Response", status_code |-> 200, text |-> b, attempt |-> n] : b \in Bodies }
    \cup { [kind |-> "Response", status_code |-> s, text |-> <<>>, attempt |-> n] :
          s \in StatusCodes \ {200} }
    \cup { [ConnectionError EXCEPT !.attempt = n] }

\* the attempt raises requests.exceptions.RequestException
RaisesRequestException(o) ==
    o.kind = "ConnectionError" \/ raise_for_status_raises(o.status_code)

ExceptionOf(o) ==
    [kind |-> IF o.kind = "ConnectionError" THEN "ConnectionError" ELSE "HTTPError",
     status_code |-> o.status_code, attempt |-> o.attempt]

RECURSIVE Pow2(_)
Pow2(n) == IF n <= 0 THEN 1 ELSE 2 * Pow2(n - 1)

GetEvent(n) == [op |-> "get", attempt |-> n, delay |-> 0]
SleepEvent(n, d) == [op |-> "sleep", attempt |-> n, delay |-> d]

-----------------------------------------------------------------------------
(* make_request(url, timeout, max_attempts, backoff_factor) *)

\* the call: attempt = 1
MakeRequestCall(u, m, b) ==
    /\ mr_pc' = "while"
    /\ mr_url' = u
    /\ attempt' = 1
    /\ max_attempts' = m
    /\ backoff_factor' = b
    /\ delay' = 0
    /\ response' = NoResponse
    /\ error' = NoError
    /\ trace' = <<>>

\* the caller has taken the result: the frame of make_request is gone
MakeRequestExit ==
    /\ mr_pc' = "idle"
    /\ mr_url' = ""
    /\ attempt' = 0
    /\ max_attempts' = 0
    /\ backoff_factor' = 0
    /\ delay' = 0
    /\ response' = NoResponse
    /\ error' = NoError
    /\ trace' = <<>>

\* faulty variant: the exponent is attempt instead of attempt - 1
BackoffDelay_OffByOne(b, n) == b * Pow2(n)

\* delay = backoff_factor * 2 ** (attempt - 1)
BackoffDelay(b, n) == b * Pow2(n - 1)

\* requests.get answers 2xx/3xx (raise_for_status passes): return response
RequestReturns ==
    /\ mr_pc = "while"
    /\ attempt <= max_attempts
    /\ \E o \in GetOutcomes(attempt) :
          /\ ~RaisesRequestException(o)
          /\ response' = o
    /\ trace' = Append(trace, GetEvent(attempt))
    /\ mr_pc' = "returned"
    /\ UNCHANGED <<mr_url, attempt, max_attempts, backoff_factor, delay, error>>
    /\ UNCHANGED scrape_vars
    /\ UNCHANGED <<hp_vars, tr_vars, cu_vars>>

\* faulty variant: the test attempt == max_attempts is missing, every failure sleeps
RequestFailsRetry_AlwaysSleeps ==
    /\ mr_pc = "while"
    /\ attempt <= max_attempts
    /\ \E o \in GetOutcomes(attempt) :
          /\ RaisesRequestException(o)
          /\ error' = ExceptionOf(o)
    /\ trace' = Append(trace, GetEvent(attempt))
    /\ delay' = BackoffDelay(backoff_factor, attempt)
    /\ mr_pc' = "sleep"
    /\ UNCHANGED <<mr_url, attempt, max_attempts, backoff_factor, response>>
    /\ UNCHANGED scrape_vars
    /\ UNCHANGED <<hp_vars, tr_vars, cu_vars>>

\* the attempt raises and attempt < max_attempts: compute the delay, log, sleep
RequestFailsRetry ==
    /\ mr_pc = "while"
    /\ attempt <= max_attempts
    /\ attempt # max_attempts
    /\ \E o \in GetOutcomes(attempt) :
          /\ RaisesRequestException(o)
          /\ error' = ExceptionOf(o)
    /\ trace' = Append(trace, GetEvent(attempt))
    /\ delay' = BackoffDelay(backoff_factor, attempt)
    /\ mr_pc' = "sleep"
    /\ UNCHANGED <<mr_url, attempt, max_attempts, backoff_factor, response>>
    /\ UNCHANGED scrape_vars
    /\ UNCHANGED <<hp_vars, tr_vars, cu_vars>>

\* time.sleep(delay) returns, the except block ends (e is unbound); attempt += 1
SleepDone ==
    /\ mr_pc = "sleep"
    /\ trace' = Append(trace, SleepEvent(attempt, delay))
    /\ attempt' = attempt + 1
    /\ error' = NoError
    /\ mr_pc' = "while"
    /\ UNCHANGED <<mr_url, max_attempts, backoff_factor, delay, response>>
    /\ UNCHANGED scrape_vars
    /\ UNCHANGED <<hp_vars, tr_vars, cu_vars>>

\* the attempt raises and attempt == max_attempts: raise e
RequestFailsLast ==
    /\ mr_pc = "while"
    /\ attempt <= max_attempts
    /\ attempt = max_attempts
    /\ \E o \in GetOutcomes(attempt) :
          /\ RaisesRequestException(o)
          /\ error' = ExceptionOf(o)
    /\ trace' = Append(trace, GetEvent(attempt))
    /\ mr_pc' = "raised"
    /\ UNCHANGED <<mr_url, attempt, max_attempts, backoff_factor, delay, response>>
    /\ UNCHANGED scrape_vars
    /\ UNCHANGED <<hp_vars, tr_vars, cu_vars>>

\* the while condition is false on entry (max_attempts < 1): falls off the end, returns None
RequestLoopExit ==
    /\ mr_pc = "while"
    /\ ~(attempt <= max_attempts)
    /\ mr_pc' = "returned"
    /\ UNCHANGED <<mr_url, attempt, max_attempts, backoff_factor, delay, response, error, trace>>
    /\ UNCHANGED scrape_vars
    /\ UNCHANGED <<hp_vars, tr_vars, cu_vars>>

-----------------------------------------------------------------------------
(* scrape(root_url, output_dir) *)

DEFAULT_MAX_ATTEMPTS == 3
DEFAULT_BACKOFF_FACTOR == 1

InQueue(u, q) == \E i \in 1..Len(q) : q[i] = u

\* d[k] = v on a dict held as a function
DictSet(d, k, v) == [x \in (DOMAIN d) \cup {k} |-> IF x = k THEN v ELSE d[x]]

\* hashlib.md5(text.encode()).hexdigest(), kept symbolic
md5(text) == <<"md5", text>>

RawPage(r) ==
    [status_code |-> r.status_code, checksum |-> md5(r.text), html_body |-> r.text]

\* soup.find_all("a") and link.get("href") over the body
find_all_hrefs(text) == text

\* faulty variant: the seed is not validated
ScrapeStart_NoValidation ==
    /\ pc = "start"
    /\ pc' = "loop"
    /\ queue' = <<root_url>>
    /\ enq_log' = <<root_url>>
    /\ UNCHANGED <<root_url, visited_urls, failed_urls, skipped_urls, valid_results,
                   url, links, written, fetch_log>>
    /\ UNCHANGED mr_vars
    /\ UNCHANGED <<hp_vars, tr_vars, cu_vars>>

\* lines 102-110: validate the seed, then build the crawl state
ScrapeStart ==
    /\ pc = "start"
    /\ IF ~is_valid_url(root_url)
       THEN /\ pc' = "ValueError"
            /\ UNCHANGED <<queue, enq_log>>
       ELSE /\ pc' = "loop"
            /\ queue' = <<root_url>>
            /\ enq_log' = <<root_url>>
    /\ UNCHANGED <<root_url, visited_urls, failed_urls, skipped_urls, valid_results,
                   url, links, written, fetch_log>>
    /\ UNCHANGED mr_vars
    /\ UNCHANGED <<hp_vars, tr_vars, cu_vars>>

\* faulty variant: popitem() takes the newest entry
ScrapePop_Lifo ==
    /\ pc = "loop"
    /\ queue # <<>>
    /\ url' = queue[Len(queue)]
    /\ queue' = SubSeq(queue, 1, Len(queue) - 1)
    /\ visited_urls' = visited_urls \cup {queue[Len(queue)]}
    /\ fetch_log' = Append(fetch_log, queue[Len(queue)])
    /\ MakeRequestCall(queue[Len(queue)], DEFAULT_MAX_ATTEMPTS, DEFAULT_BACKOFF_FACTOR)
    /\ pc' = "fetch"
    /\ UNCHANGED <<root_url, failed_urls, skipped_urls, valid_results, links, written,
                   enq_log>>
    /\ UNCHANGED <<hp_vars, tr_vars, cu_vars>>

\* lines 112-118: pop the oldest entry, mark it visited, call make_request(url)
ScrapePop ==
    /\ pc = "loop"
    /\ queue # <<>>
    /\ url' = Head(queue)
    /\ queue' = Tail(queue)
    /\ visited_urls' = visited_urls \cup {Head(queue)}
    /\ fetch_log' = Append(fetch_log, Head(queue))
    /\ MakeRequestCall(Head(queue), DEFAULT_MAX_ATTEMPTS, DEFAULT_BACKOFF_FACTOR)
    /\ pc' = "fetch"
    /\ UNCHANGED <<root_url, failed_urls, skipped_urls, valid_results, links, written,
                   enq_log>>
    /\ UNCHANGED <<hp_vars, tr_vars, cu_vars>>

\* faulty variant: the handler records the failure and raises again
ScrapeFetchFailed_Aborts ==
    /\ pc = "fetch"
    /\ mr_pc = "raised"
    /\ failed_urls' = failed_urls \cup {url}
    /\ pc' = "RequestException"
    /\ MakeRequestExit
    /\ UNCHANGED <<root_url, queue, visited_urls, skipped_urls, valid_results, url,
                   links, written, enq_log, fetch_log>>
    /\ UNCHANGED <<hp_vars, tr_vars, cu_vars>>

\* faulty variant: the failure is logged but the URL is not recorded
ScrapeFetchFailed_NotRecorded ==
    /\ pc = "fetch"
    /\ mr_pc = "raised"
    /\ failed_urls' = failed_urls
    /\ pc' = "loop"
    /\ MakeRequestExit
    /\ UNCHANGED <<root_url, queue, visited_urls, skipped_urls, valid_results, url,
                   links, written, enq_log, fetch_log>>
    /\ UNCHANGED <<hp_vars, tr_vars, cu_vars>>

\* lines 119-124: make_request raised RequestException: record the failure, continue
ScrapeFetchFailed ==
    /\ pc = "fetch"
    /\ mr_pc = "raised"
    /\ failed_urls' = failed_urls \cup {url}
    /\ pc' = "loop"
    /\ MakeRequestExit
    /\ UNCHANGED <<root_url, queue, visited_urls, skipped_urls, valid_results, url,
                   links, written, enq_log, fetch_log>>
    /\ UNCHANGED <<hp_vars, tr_vars, cu_vars>>

\* lines 126-135: store the RawPage, parse the body, collect the anchors
ScrapeStoreResult ==
    /\ pc = "fetch"
    /\ mr_pc = "returned"
    /\ valid_results' = DictSet(valid_results, url, RawPage(response))
    /\ links' = find_all_hrefs(response.text)
    /\ pc' = "links"
    /\ MakeRequestExit
    /\ UNCHANGED <<root_url, queue, visited_urls, failed_urls, skipped_urls, url,
                   written, enq_log, fetch_log>>
    /\ UNCHANGED <<hp_vars, tr_vars, cu_vars>>

\* faulty variant: the test against visited_urls is missing
IsNewUrl_NoVisitedTest(canonical_url) ==
    /\ canonical_url \notin skipped_urls
    /\ ~InQueue(canonical_url, queue)

\* faulty variant: the test against the queue is missing
IsNewUrl_NoQueueTest(canonical_url) ==
    /\ canonical_url \notin visited_urls
    /\ canonical_url \notin skipped_urls

\* lines 140-144: the canonical URL has not been seen yet
IsNewUrl(canonical_url) ==
    /\ canonical_url \notin visited_urls
    /\ canonical_url \notin skipped_urls
    /\ ~InQueue(canonical_url, queue)

\* faulty variant: a new URL is put at the head of the queue
ScrapeLink_EnqueuesAtHead ==
    /\ pc = "links"
    /\ links # <<>>
    /\ LET href == Head(links)
           canonical_url == get_canonical_url(href)
       IN  IF urlparse_raises(href)
           THEN \* the ValueError of urlparse leaves get_canonical_url and scrape
                /\ pc' = UrlparseError
                /\ UNCHANGED <<queue, enq_log, skipped_urls, links>>
           ELSE /\ IF Truthy(canonical_url)
                   THEN IF IsNewUrl(canonical_url)
                        THEN IF is_valid_url(canonical_url)
                             THEN /\ queue' = <<canonical_url>> \o queue
                                  /\ enq_log' = Append(enq_log, canonical_url)
                                  /\ UNCHANGED skipped_urls
                             ELSE /\ skipped_urls' = skipped_urls \cup {canonical_url}
                                  /\ UNCHANGED <<queue, enq_log>>
                        ELSE UNCHANGED <<queue, enq_log, skipped_urls>>
                   ELSE /\ skipped_urls' = skipped_urls \cup {href}
                        /\ UNCHANGED <<queue, enq_log>>
                /\ links' = Tail(links)
                /\ UNCHANGED pc
    /\ UNCHANGED <<root_url, visited_urls, failed_urls, valid_results, url, written,
                   fetch_log>>
    /\ UNCHANGED mr_vars
    /\ UNCHANGED <<hp_vars, tr_vars, cu_vars>>

\* lines 136-151: one iteration of the loop over the anchors
ScrapeLink ==
    /\ pc = "links"
    /\ links # <<>>
    /\ LET href == Head(links)
           canonical_url == get_canonical_url(href)
       IN  IF urlparse_raises(href)
           THEN \* the ValueError of urlparse leaves get_canonical_url and scrape
                /\ pc' = UrlparseError
                /\ UNCHANGED <<queue, enq_log, skipped_urls, links>>
           ELSE /\ IF Truthy(canonical_url)
                   THEN IF IsNewUrl(canonical_url)
                        THEN IF is_valid_url(canonical_url)
                             THEN /\ queue' = Append(queue, canonical_url)
                                  /\ enq_log' = Append(enq_log, canonical_url)
                                  /\ UNCHANGED skipped_urls
                             ELSE /\ skipped_urls' = skipped_urls \cup {canonical_url}
                                  /\ UNCHANGED <<queue, enq_log>>
                        ELSE UNCHANGED <<queue, enq_log, skipped_urls>>
                   ELSE /\ skipped_urls' = skipped_urls \cup {href}
                        /\ UNCHANGED <<queue, enq_log>>
                /\ links' = Tail(links)
                /\ UNCHANGED pc
    /\ UNCHANGED <<root_url, visited_urls, failed_urls, valid_results, url, written,
                   fetch_log>>
    /\ UNCHANGED mr_vars
    /\ UNCHANGED <<hp_vars, tr_vars, cu_vars>>

\* the loop over the anchors is exhausted: back to the while condition
ScrapeLinksDone ==
    /\ pc = "links"
    /\ links = <<>>
    /\ pc' = "loop"
    /\ UNCHANGED <<root_url, queue, visited_urls, failed_urls, skipped_urls,
                   valid_results, url, links, written, enq_log, fetch_log>>
    /\ UNCHANGED mr_vars
    /\ UNCHANGED <<hp_vars, tr_vars, cu_vars>>

\* lines 166-182: the report; sorted(s) of a set is written as the set
Metadata ==
    [root_url |-> root_url,
     visited_count |-> Cardinality(visited_urls),
     skipped_count |-> Cardinality(skipped_urls),
     success_count |-> Cardinality(DOMAIN valid_results),
     failed_count |-> Cardinality(failed_urls),
     visited_urls |-> visited_urls,
     skipped_urls |-> skipped_urls,
     failed_urls |-> failed_urls]

\* lines 153-192: the queue is empty: write metadata.json and data.json
ScrapeWrite ==
    /\ pc = "loop"
    /\ queue = <<>>
    /\ written' = << [file |-> "metadata.json", metadata |-> Metadata],
                     [file |-> "data.json", metadata |-> Metadata] >>
    /\ pc' = "done"
    /\ UNCHANGED <<root_url, queue, visited_urls, failed_urls, skipped_urls,
                   valid_results, url, links, enq_log, fetch_log>>
    /\ UNCHANGED mr_vars
    /\ UNCHANGED <<hp_vars, tr_vars, cu_vars>>

-----------------------------------------------------------------------------
(* Texts of HtmlParser: sequences of one-character strings *)

MaxTextLen == 2   \* longest stripped text of a node handed to the packer directly
MaxNodes == 3     \* nodes handed to the packer directly
MaxLeafLen == 2   \* longest text of a leaf element of a parsed fragment
MaxItems == 3     \* top-level elements of a parsed fragment

Newline == "\n"

\* a text of n non-blank characters
X(n) == [i \in 1..n |-> "x"]

IsSpace(c) == c \in { " ", Newline }

RECURSIVE lstrip(_)
lstrip(t) == IF t # <<>> /\ IsSpace(Head(t)) THEN lstrip(Tail(t)) ELSE t

RECURSIVE rstrip(_)
rstrip(t) ==
    IF t # <<>> /\ IsSpace(t[Len(t)]) THEN rstrip(SubSeq(t, 1, Len(t) - 1)) ELSE t

\* str.strip()
strip(t) == rstrip(lstrip(t))

-----------------------------------------------------------------------------
(* utils/schema.py *)

Node(text, tag) == [text |-> text, tag |-> tag]

Chunk(text, nodelist, metadata) == [text |-> text, nodes |-> nodelist, metadata |-> metadata]

NoChunk == Chunk(<<>>, <<>>, [url |-> ""])

-----------------------------------------------------------------------------
(* HtmlParser: the markup tree, as BeautifulSoup hands it over *)

DEFAULT_TAGS == { "h1", "h2", "h3", "h4", "h5", "h6", "p", "li" }
DEFAULT_INSEPARABLE_TAGS == { "li" }
DEFAULT_CHUNK_SIZE == 750
DEFAULT_CHUNK_SIZE_BUFFER == 30

\* a NavigableString, and a Tag with its children
Str(t) == [name |-> "#text", text |-> t, children |-> <<>>]
Elem(name, children) == [name |-> name, text |-> <<>>, children |-> children]

IsTag(e) == e.name # "#text"

\* Tag.get_text(): the strings below the element, concatenated in document order
RECURSIVE get_text(_)
RECURSIVE get_text_of_all(_)
get_text(e) == IF IsTag(e) THEN get_text_of_all(e.children) ELSE e.text
get_text_of_all(es) ==
    IF es = <<>> THEN <<>> ELSE get_text(Head(es)) \o get_text_of_all(Tail(es))

\* traverse(tag) of _split_text_into_tags: the tags it appends, in order
RECURSIVE traverse(_)
RECURSIVE traverse_all(_)
traverse(e) ==
    IF IsTag(e)
    THEN IF e.name \in DEFAULT_TAGS
         THEN IF strip(get_text(e)) # <<>> THEN <<e>> ELSE <<>>
         ELSE traverse_all(e.children)
    ELSE <<>>
traverse_all(es) ==
    IF es = <<>> THEN <<>> ELSE traverse(Head(es)) \o traverse_all(Tail(es))

\* _split_text_into_tags(text): the soup object is a Tag named [document]
_split_text_into_tags(text) == traverse(Elem("[document]", text))

\* faulty variant: only the current text is measured
_is_valid_chunk_size_CurrentOnly(current_chunk_text, new_chunk_text) ==
    Len(current_chunk_text) <= chunk_size + chunk_size_buffer

\* faulty variant: strict comparison
_is_valid_chunk_size_Strict(current_chunk_text, new_chunk_text) ==
    Len(current_chunk_text) + Len(new_chunk_text) < chunk_size + chunk_size_buffer

\* _is_valid_chunk_size(current_chunk_text, new_chunk_text)
_is_valid_chunk_size(current_chunk_text, new_chunk_text) ==
    Len(current_chunk_text) + Len(new_chunk_text) <= chunk_size + chunk_size_buffer

\* faulty variant: the chunk is appended without the test for an empty text
_commit_chunk_NoEmptyTest(cs, c) == Append(cs, [c EXCEPT !.text = strip(c.text)])

\* _commit_chunk(chunks, current_chunk): the list of chunks afterwards
_commit_chunk(cs, c) ==
    LET stripped == strip(c.text)
    IN  IF stripped # <<>> THEN Append(cs, [c EXCEPT !.text = stripped]) ELSE cs

-----------------------------------------------------------------------------
(* HtmlParser.parse(text, url) *)

\* line 179: tags = self._split_text_into_tags(text)
ParseSplit ==
    /\ hp_pc = "split"
    /\ tags' = _split_text_into_tags(hp_text)
    /\ tags_left' = _split_text_into_tags(hp_text)
    /\ nodes' = <<>>
    /\ hp_pc' = "convert"
    /\ UNCHANGED <<hp_call, chunk_size, chunk_size_buffer, hp_text, hp_url, nodes_left, chunks,
                   current_chunk>>
    /\ UNCHANGED <<scrape_vars, mr_vars, tr_vars, cu_vars>>

\* faulty variant: every tag with text becomes a node of its own
ConvertTag_NoMerge ==
    /\ hp_pc = "convert"
    /\ tags_left # <<>>
    /\ LET tag == Head(tags_left)
           stripped == strip(get_text(tag))
       IN  IF stripped = <<>>
           THEN UNCHANGED nodes
           ELSE nodes' = Append(nodes, Node(stripped \o <<Newline>>, tag.name))
    /\ tags_left' = Tail(tags_left)
    /\ UNCHANGED <<hp_pc, hp_call, chunk_size, chunk_size_buffer, hp_text, hp_url, tags,
                   nodes_left, chunks, current_chunk>>
    /\ UNCHANGED <<scrape_vars, mr_vars, tr_vars, cu_vars>>

\* faulty variant: adjacent tags of the same name are merged, whatever the name
ConvertTag_MergesAnyTag ==
    /\ hp_pc = "convert"
    /\ tags_left # <<>>
    /\ LET tag == Head(tags_left)
           stripped == strip(get_text(tag))
           tag_text == stripped \o <<Newline>>
       IN  IF stripped = <<>>
           THEN UNCHANGED nodes
           ELSE IF /\ nodes # <<>>
                   /\ nodes[Len(nodes)].tag = tag.name
                THEN nodes' = [nodes EXCEPT ![Len(nodes)].text = @ \o tag_text]
                ELSE nodes' = Append(nodes, Node(tag_text, tag.name))
    /\ tags_left' = Tail(tags_left)
    /\ UNCHANGED <<hp_pc, hp_call, chunk_size, chunk_size_buffer, hp_text, hp_url, tags,
                   nodes_left, chunks, current_chunk>>
    /\ UNCHANGED <<scrape_vars, mr_vars, tr_vars, cu_vars>>

\* lines 91-107: one iteration of the loop of _convert_tags_to_nodes
ConvertTag ==
    /\ hp_pc = "convert"
    /\ tags_left # <<>>
    /\ LET tag == Head(tags_left)
           stripped == strip(get_text(tag))
           tag_text == stripped \o <<Newline>>
       IN  IF stripped = <<>>
           THEN UNCHANGED nodes
           ELSE IF /\ tag.name \in DEFAULT_INSEPARABLE_TAGS
                   /\ nodes # <<>>
                   /\ nodes[Len(nodes)].tag = tag.name
                THEN nodes' = [nodes EXCEPT ![Len(nodes)].text = @ \o tag_text]
                ELSE nodes' = Append(nodes, Node(tag_text, tag.name))
    /\ tags_left' = Tail(tags_left)
    /\ UNCHANGED <<hp_pc, hp_call, chunk_size, chunk_size_buffer, hp_text, hp_url, tags,
                   nodes_left, chunks, current_chunk>>
    /\ UNCHANGED <<scrape_vars, mr_vars, tr_vars, cu_vars>>

\* lines 109 and 181: return nodes; call _combine_nodes_into_chunks(nodes, url)
ConvertDone ==
    /\ hp_pc = "convert"
    /\ tags_left = <<>>
    /\ hp_pc' = "combine"
    /\ UNCHANGED <<hp_call, chunk_size, chunk_size_buffer, hp_text, hp_url, tags, tags_left,
                   nodes, nodes_left, chunks, current_chunk>>
    /\ UNCHANGED <<scrape_vars, mr_vars, tr_vars, cu_vars>>

\* lines 140-144: no nodes: return []; otherwise an empty list and an empty chunk
CombineStart ==
    /\ hp_pc = "combine"
    /\ chunks' = <<>>
    /\ IF nodes = <<>>
       THEN /\ hp_pc' = "done"
            /\ UNCHANGED <<nodes_left, current_chunk>>
       ELSE /\ hp_pc' = "loop"
            /\ nodes_left' = nodes
            /\ current_chunk' = Chunk(<<>>, <<>>, [url |-> hp_url])
    /\ UNCHANGED <<hp_call, chunk_size, chunk_size_buffer, hp_text, hp_url, tags, tags_left, nodes>>
    /\ UNCHANGED <<scrape_vars, mr_vars, tr_vars, cu_vars>>

\* faulty variant: the node that opens a new chunk is not listed in it
CombineNode_OpenerNotListed ==
    /\ hp_pc = "loop"
    /\ nodes_left # <<>>
    /\ LET node == Head(nodes_left)
           new_node_text == strip(node.text)
           new_node_text_with_newline == new_node_text \o <<Newline>>
       IN  IF new_node_text = <<>>
           THEN UNCHANGED <<chunks, current_chunk>>
           ELSE IF _is_valid_chunk_size(current_chunk.text, new_node_text_with_newline)
                THEN /\ current_chunk' =
                            [current_chunk EXCEPT
                                !.text = @ \o new_node_text_with_newline,
                                !.nodes = Append(@, node)]
                     /\ UNCHANGED chunks
                ELSE /\ chunks' = _commit_chunk(chunks, current_chunk)
                     /\ current_chunk' =
                            Chunk(new_node_text_with_newline, <<>>, [url |-> hp_url])
    /\ nodes_left' = Tail(nodes_left)
    /\ UNCHANGED <<hp_pc, hp_call, chunk_size, chunk_size_buffer, hp_text, hp_url, tags, tags_left,
                   nodes>>
    /\ UNCHANGED <<scrape_vars, mr_vars, tr_vars, cu_vars>>

\* lines 146-162: one iteration of the loop of _combine_nodes_into_chunks
CombineNode ==
    /\ hp_pc = "loop"
    /\ nodes_left # <<>>
    /\ LET node == Head(nodes_left)
           new_node_text == strip(node.text)
           new_node_text_with_newline == new_node_text \o <<Newline>>
       IN  IF new_node_text = <<>>
           THEN UNCHANGED <<chunks, current_chunk>>
           ELSE IF _is_valid_chunk_size(current_chunk.text, new_node_text_with_newline)
                THEN /\ current_chunk' =
                            [current_chunk EXCEPT
                                !.text = @ \o new_node_text_with_newline,
                                !.nodes = Append(@, node)]
                     /\ UNCHANGED chunks
                ELSE /\ chunks' = _commit_chunk(chunks, current_chunk)
                     /\ current_chunk' =
                            Chunk(new_node_text_with_newline, <<node>>, [url |-> hp_url])
    /\ nodes_left' = Tail(nodes_left)
    /\ UNCHANGED <<hp_pc, hp_call, chunk_size, chunk_size_buffer, hp_text, hp_url, tags, tags_left,
                   nodes>>
    /\ UNCHANGED <<scrape_vars, mr_vars, tr_vars, cu_vars>>

\* lines 164-167: commit what remains, return chunks
CombineFinish ==
    /\ hp_pc = "loop"
    /\ nodes_left = <<>>
    /\ chunks' = IF strip(current_chunk.text) # <<>>
                 THEN _commit_chunk(chunks, current_chunk)
                 ELSE chunks
    /\ hp_pc' = "done"
    /\ UNCHANGED <<hp_call, chunk_size, chunk_size_buffer, hp_text, hp_url, tags, tags_left,
                   nodes, nodes_left, current_chunk>>
    /\ UNCHANGED <<scrape_vars, mr_vars, tr_vars, cu_vars>>

-----------------------------------------------------------------------------
(* datajobs/notion/transform.py *)

MaxPages == 3   \* pages of the raw corpus handed to the transform stage

\* BeautifulSoup find_all(name) below a list of elements: the descendants with
\* that name, in document order
RECURSIVE find_all(_, _)
find_all(es, name) ==
    IF es = <<>> THEN <<>>
    ELSE LET e == Head(es)
         IN  (IF IsTag(e)
              THEN (IF e.name = name THEN <<e>> ELSE <<>>) \o find_all(e.children, name)
              ELSE <<>>)
             \o find_all(Tail(es), name)

\* lines 41-43: the elements without the asides below them (aside.decompose())
RECURSIVE decompose_asides(_)
decompose_asides(es) ==
    IF es = <<>> THEN <<>>
    ELSE LET e == Head(es)
         IN  (IF IsTag(e)
              THEN IF e.name = "aside"
                   THEN <<>>
                   ELSE << [e EXCEPT !.children = decompose_asides(@)] >>
              ELSE <<e>>)
             \o decompose_asides(Tail(es))

\* lines 30-39: extract_articles raises RuntimeError
extract_articles_raises(text) ==
    \/ find_all(text, "main") = <<>>
    \/ find_all(find_all(text, "main")[1].children, "article") = <<>>

\* lines 36-45: the markup of each article of the first main section, without its
\* asides; str(article) read again by a parser is a fragment holding that element
extract_articles(text) ==
    LET main_section == find_all(text, "main")[1]
        articles == find_all(main_section.children, "article")
    IN  [i \in 1..Len(articles) |->
            << [articles[i] EXCEPT !.children = decompose_asides(@)] >>]

\* Chunk.__str__
ChunkStr(c) == c.text

\* the answers of the chat completion to one article: the call raises, or the
\* message content is not JSON, or JSON without the key "results", or JSON with
\* a list of strings under it
Completions ==
    { [kind |-> "APIError", results |-> <<>>],
      [kind |-> "JSONDecodeError", results |-> <<>>],
      [kind |-> "KeyError", results |-> <<>>],
      [kind |-> "ok", results |-> <<>>],
      [kind |-> "ok", results |-> << X(1) >>],
      [kind |-> "ok", results |-> << X(1), X(2) >>] }

\* OpenAIParser._convert_response_to_chunks(response, url)
_convert_response_to_chunks(completion, u) ==
    [i \in 1..Len(completion.results) |->
        Chunk(completion.results[i], <<>>, [url |-> u])]

\* dict: the keys in insertion order, the value of a key, an assignment
Keys(d) == [i \in 1..Len(d) |-> d[i].key]

HasKey(d, k) == \E i \in 1..Len(d) : d[i].key = k

Lookup(d, k) == d[CHOOSE i \in 1..Len(d) : d[i].key = k].value

Assign(d, k, v) ==
    IF HasKey(d, k)
    THEN [i \in 1..Len(d) |-> IF d[i].key = k THEN [key |-> k, value |-> v] ELSE d[i]]
    ELSE Append(d, [key |-> k, value |-> v])

\* lines 141-146: only the target URLs that are keys of the raw results, in the
\* order of target_urls
RECURSIVE target_results_of(_, _)
target_results_of(targets, results) ==
    IF targets = <<>> THEN <<>>
    ELSE LET init == target_results_of(SubSeq(targets, 1, Len(targets) - 1), results)
             u == targets[Len(targets)]
         IN  IF HasKey(results, u) THEN Assign(init, u, Lookup(results, u)) ELSE init

HTML_PARSER == "parse_into_chunks_with_html_parser"
OPENAI_PARSER == "parse_into_chunks_with_openai_parser"

HtmlParserReturned ==
    /\ hp_pc' = "idle"
    /\ hp_call' = ""
    /\ hp_text' = <<>>
    /\ hp_url' = ""
    /\ tags' = <<>>
    /\ tags_left' = <<>>
    /\ nodes' = <<>>
    /\ nodes_left' = <<>>
    /\ chunks' = <<>>
    /\ current_chunk' = NoChunk
    /\ UNCHANGED <<chunk_size, chunk_size_buffer>>

\* lines 51-60 and 121-146: the parser and its configuration, the raw data, the
\* choice of the target URLs
TransformStart ==
    /\ tr_pc = "start"
    /\ IF tr_call = OPENAI_PARSER /\ ~openai_parser_given /\ api_key = ""
       THEN /\ tr_pc' = "RuntimeError"
            /\ UNCHANGED <<raw_results, tr_left>>
       ELSE /\ tr_pc' = "loop"
            /\ raw_results' = IF tr_call = OPENAI_PARSER /\ target_urls # <<>>
                              THEN target_results_of(target_urls, raw_results)
                              ELSE raw_results
            /\ tr_left' = raw_results'
    /\ UNCHANGED <<tr_call, openai_parser_given, api_key, target_urls, tr_url, articles_left,
                   page_chunks, url_to_chunks, tr_skipped_urls, tr_written>>
    /\ UNCHANGED <<scrape_vars, mr_vars, hp_vars, cu_vars>>

\* faulty variant: a page whose extraction fails is dropped without a record
TransformPage_DropsSilently ==
    /\ tr_pc = "loop"
    /\ tr_left # <<>>
    /\ LET html_body == Head(tr_left).value.html_body
       IN  IF extract_articles_raises(html_body)
           THEN UNCHANGED <<tr_pc, tr_url, articles_left, page_chunks, tr_skipped_urls>>
           ELSE /\ tr_url' = Head(tr_left).key
                /\ articles_left' = extract_articles(html_body)
                /\ page_chunks' = <<>>
                /\ tr_pc' = "articles"
                /\ UNCHANGED tr_skipped_urls
    /\ tr_left' = Tail(tr_left)
    /\ UNCHANGED <<tr_call, openai_parser_given, api_key, target_urls, raw_results,
                   url_to_chunks, tr_written>>
    /\ UNCHANGED <<scrape_vars, mr_vars, hp_vars, cu_vars>>

\* lines 62-71 and 148-159: the next page: its articles, or its URL is skipped
TransformPage ==
    /\ tr_pc = "loop"
    /\ tr_left # <<>>
    /\ LET html_body == Head(tr_left).value.html_body
       IN  IF extract_articles_raises(html_body)
           THEN /\ tr_skipped_urls' = Append(tr_skipped_urls, Head(tr_left).key)
                /\ UNCHANGED <<tr_pc, tr_url, articles_left, page_chunks>>
           ELSE /\ tr_url' = Head(tr_left).key
                /\ articles_left' = extract_articles(html_body)
                /\ page_chunks' = <<>>
                /\ tr_pc' = "articles"
                /\ UNCHANGED tr_skipped_urls
    /\ tr_left' = Tail(tr_left)
    /\ UNCHANGED <<tr_call, openai_parser_given, api_key, target_urls, raw_results,
                   url_to_chunks, tr_written>>
    /\ UNCHANGED <<scrape_vars, mr_vars, hp_vars, cu_vars>>

\* line 73: html_parser.parse(article, url) is called
TransformParseCall ==
    /\ tr_pc = "articles"
    /\ tr_call = HTML_PARSER
    /\ articles_left # <<>>
    /\ tr_pc' = "parse"
    /\ hp_pc' = "split"
    /\ hp_call' = "parse"
    /\ hp_text' = Head(articles_left)
    /\ hp_url' = tr_url
    /\ UNCHANGED <<chunk_size, chunk_size_buffer, tags, tags_left, nodes, nodes_left, chunks,
                   current_chunk>>
    /\ UNCHANGED <<tr_call, openai_parser_given, api_key, target_urls, raw_results, tr_left,
                   tr_url, articles_left, page_chunks, url_to_chunks, tr_skipped_urls,
                   tr_written>>
    /\ UNCHANGED <<scrape_vars, mr_vars, cu_vars>>

\* lines 73-74: parse has returned: page_chunks.extend(article_chunks)
TransformParseReturn ==
    /\ tr_pc = "parse"
    /\ hp_pc = "done"
    /\ page_chunks' = page_chunks \o chunks
    /\ articles_left' = Tail(articles_left)
    /\ tr_pc' = "articles"
    /\ HtmlParserReturned
    /\ UNCHANGED <<tr_call, openai_parser_given, api_key, target_urls, raw_results, tr_left,
                   tr_url, url_to_chunks, tr_skipped_urls, tr_written>>
    /\ UNCHANGED <<scrape_vars, mr_vars, cu_vars>>

\* lines 161-162 and openai_parser.py 74-77: openai_parser.parse(article, url);
\* an error of the request or of the conversion leaves the function
TransformOpenAIParse ==
    /\ tr_pc = "articles"
    /\ tr_call = OPENAI_PARSER
    /\ articles_left # <<>>
    /\ \E completion \in Completions :
          IF completion.kind # "ok"
          THEN /\ tr_pc' = completion.kind
               /\ UNCHANGED <<articles_left, page_chunks>>
          ELSE /\ page_chunks' = page_chunks \o _convert_response_to_chunks(completion, tr_url)
               /\ articles_left' = Tail(articles_left)
               /\ UNCHANGED tr_pc
    /\ UNCHANGED <<tr_call, openai_parser_given, api_key, target_urls, raw_results, tr_left,
                   tr_url, url_to_chunks, tr_skipped_urls, tr_written>>
    /\ UNCHANGED <<scrape_vars, mr_vars, hp_vars, cu_vars>>

\* lines 76 and 164: url_to_chunks[url] = page_chunks
TransformPageDone ==
    /\ tr_pc = "articles"
    /\ articles_left = <<>>
    /\ url_to_chunks' = Assign(url_to_chunks, tr_url, page_chunks)
    /\ tr_pc' = "loop"
    /\ UNCHANGED <<tr_call, openai_parser_given, api_key, target_urls, raw_results, tr_left,
                   tr_url, articles_left, page_chunks, tr_skipped_urls, tr_written>>
    /\ UNCHANGED <<scrape_vars, mr_vars, hp_vars, cu_vars>>

\* lines 85-91 and 173-179: the report
TransformMetadata ==
    [total_count |-> Len(raw_results),
     success_count |-> Len(url_to_chunks),
     skipped_count |-> Len(tr_skipped_urls),
     success_urls |-> Keys(url_to_chunks),
     skipped_urls |-> tr_skipped_urls]

\* lines 78-112 and 166-200: the chunks as strings, the report, the two files
TransformWrite ==
    /\ tr_pc = "loop"
    /\ tr_left = <<>>
    /\ url_to_chunks' =
          [i \in 1..Len(url_to_chunks) |->
              [key |-> url_to_chunks[i].key,
               value |-> [j \in 1..Len(url_to_chunks[i].value) |->
                             ChunkStr(url_to_chunks[i].value[j])]]]
    /\ tr_written' =
          << [file |-> "metadata.json", metadata |-> TransformMetadata],
             [file |-> "data.json", metadata |-> TransformMetadata,
              results |-> url_to_chunks'] >>
    /\ tr_pc' = "done"
    /\ UNCHANGED <<tr_call, openai_parser_given, api_key, target_urls, raw_results, tr_left,
                   tr_url, articles_left, page_chunks, tr_skipped_urls>>
    /\ UNCHANGED <<scrape_vars, mr_vars, hp_vars, cu_vars>>

-----------------------------------------------------------------------------
(* Specification: a client calls scrape(root_url) for a seed of RootUrls, or   *)
(* calls make_request directly with its own max_attempts and backoff_factor.   *)

EmptyDict == <<>>

MakeRequestIdle ==
    /\ mr_pc = "idle"
    /\ mr_url = ""
    /\ attempt = 0
    /\ max_attempts = 0
    /\ backoff_factor = 0
    /\ delay = 0
    /\ response = NoResponse
    /\ error = NoError
    /\ trace = <<>>

ScrapeEmpty ==
    /\ queue = <<>>
    /\ visited_urls = {}
    /\ failed_urls = {}
    /\ skipped_urls = {}
    /\ valid_results = EmptyDict
    /\ url = ""
    /\ links = <<>>
    /\ written = <<>>
    /\ enq_log = <<>>
    /\ fetch_log = <<>>

HtmlParserIdle ==
    /\ hp_pc = "idle"
    /\ hp_call = ""
    /\ chunk_size = 0
    /\ chunk_size_buffer = 0
    /\ hp_text = <<>>
    /\ hp_url = ""
    /\ tags = <<>>
    /\ tags_left = <<>>
    /\ nodes = <<>>
    /\ nodes_left = <<>>
    /\ chunks = <<>>
    /\ current_chunk = NoChunk

TransformIdle ==
    /\ tr_pc = "idle"
    /\ tr_call = ""
    /\ openai_parser_given = FALSE
    /\ api_key = ""
    /\ target_urls = <<>>
    /\ raw_results = <<>>
    /\ tr_left = <<>>
    /\ tr_url = ""
    /\ articles_left = <<>>
    /\ page_chunks = <<>>
    /\ url_to_chunks = <<>>
    /\ tr_skipped_urls = <<>>
    /\ tr_written = <<>>

CanonicalIdle ==
    /\ cu_pc = "idle"
    /\ cu_url = <<>>
    /\ cu_canonical = <<>>
    /\ cu_twice = <<>>

\* scrape(root_url) has been called
InitScrape ==
    /\ pc = "start"
    /\ root_url \in RootUrls
    /\ ScrapeEmpty
    /\ MakeRequestIdle
    /\ HtmlParserIdle
    /\ TransformIdle
    /\ CanonicalIdle

\* make_request(url, max_attempts=m, backoff_factor=b) has been called
InitRequest ==
    /\ pc = "idle"
    /\ root_url = ""
    /\ ScrapeEmpty
    /\ mr_pc = "while"
    /\ mr_url = "https://notion.so/help"
    /\ attempt = 1
    /\ max_attempts \in 0..MaxAttemptsBound
    /\ backoff_factor \in 1..MaxBackoff
    /\ delay = 0
    /\ response = NoResponse
    /\ error = NoError
    /\ trace = <<>>
    /\ HtmlParserIdle
    /\ TransformIdle
    /\ CanonicalIdle

Init == InitScrape \/ InitRequest

Next ==
    \/ ScrapeStart
    \/ ScrapePop
    \/ RequestReturns
    \/ RequestFailsRetry
    \/ SleepDone
    \/ RequestFailsLast
    \/ RequestLoopExit
    \/ ScrapeFetchFailed
    \/ ScrapeStoreResult
    \/ ScrapeLink
    \/ ScrapeLinksDone
    \/ ScrapeWrite

Spec == Init /\ [][Next]_vars

\* scrape() and make_request() are sequential code: a statement that can run does
\* run, every GET returns or raises, every sleep ends
FairSpec == Spec /\ WF_vars(Next)

-----------------------------------------------------------------------------
(* Specification of the parser: a client calls HtmlParser(chunk_size,          *)
(* chunk_size_buffer).parse(text, url), or hands a node list to                *)
(* _combine_nodes_into_chunks(nodes, url).                                     *)

ChunkSizes == { 1, 5 }
ChunkSizeBuffers == { 0, 1 }

\* chunk_size and chunk_size_buffer of the parsers that are handed a fragment:
\* the tightest and the widest ceiling of the model
ParseSizes == { <<1, 0>>, <<5, 1>> }

PageUrl == "https://notion.so/help/a"

LeafTexts == { X(k) : k \in 0..MaxLeafLen } \cup { <<" ">> }

Leaves == { Elem(n, <<Str(t)>>) : n \in { "p", "li" }, t \in LeafTexts }

\* a heading; a list of two items with white space between them; a list item
\* holding two paragraphs; a division holding a blank paragraph and a loose string
Containers ==
    { Elem("h1", << Str(<<" ">> \o X(1) \o <<Newline>>) >>),
      Elem("ul", << Elem("li", <<Str(X(1))>>), Str(<<Newline>>), Elem("li", <<Str(X(2))>>) >>),
      Elem("li", << Elem("p", <<Str(X(1))>>), Elem("p", <<Str(X(1))>>) >>),
      Elem("div", << Elem("p", <<Str(<<" ">>)>>), Str(X(1)) >>) }

Items == Leaves \cup Containers \cup { Str(<<" ">>) }

Fragments == SeqsUpTo(Items, MaxItems)

\* the largest ceiling of the parsers of the model
MaxCeiling ==
    CHOOSE c \in { a + b : a \in ChunkSizes, b \in ChunkSizeBuffers } :
        \A a \in ChunkSizes, b \in ChunkSizeBuffers : a + b <= c

\* newline-terminated texts, a text with blanks around it, and a text longer
\* than every ceiling
NodeTexts ==
    { X(k) \o <<Newline>> : k \in 0..MaxTextLen }
    \cup { <<" ">> \o X(1) \o <<" ">>, X(MaxCeiling + 1) \o <<Newline>> }

DirectNodes == { Node(t, tag) : t \in NodeTexts, tag \in { "p", "li" } }

NodeLists == SeqsUpTo(DirectNodes, MaxNodes)

\* the packing example of the documentation: an h1 of 10 characters, a p of 740
\* and a p of 50, each ending with a newline
ExampleNodes ==
    << Node(X(9) \o <<Newline>>, "h1"), Node(X(739) \o <<Newline>>, "p"),
       Node(X(49) \o <<Newline>>, "p") >>

\* the list example of the documentation: a paragraph, a list of five items
\* whose merged text has 900 characters, and a paragraph
ListItem == Elem("li", <<Str(X(179))>>)

ListExample ==
    << Elem("p", <<Str(X(100))>>),
       Elem("ul", << ListItem, Str(<<Newline>>), ListItem, Str(<<Newline>>), ListItem,
                     Str(<<Newline>>), ListItem, Str(<<Newline>>), ListItem >>),
       Elem("p", <<Str(X(100))>>) >>

HtmlParserFresh ==
    /\ hp_url = PageUrl
    /\ tags = <<>>
    /\ tags_left = <<>>
    /\ nodes_left = <<>>
    /\ chunks = <<>>
    /\ current_chunk = NoChunk

\* parse(text, url) has been called
InitParse ==
    /\ hp_pc = "split"
    /\ hp_call = "parse"
    /\ \/ /\ \E sizes \in ParseSizes :
                /\ chunk_size = sizes[1]
                /\ chunk_size_buffer = sizes[2]
          /\ hp_text \in Fragments
       \/ /\ chunk_size = DEFAULT_CHUNK_SIZE
          /\ chunk_size_buffer = DEFAULT_CHUNK_SIZE_BUFFER
          /\ hp_text = ListExample
    /\ nodes = <<>>
    /\ HtmlParserFresh

\* _combine_nodes_into_chunks(nodes, url) has been called
InitCombine ==
    /\ hp_pc = "combine"
    /\ hp_call = "_combine_nodes_into_chunks"
    /\ \/ /\ chunk_size \in ChunkSizes
          /\ chunk_size_buffer \in ChunkSizeBuffers
          /\ nodes \in NodeLists
       \/ /\ chunk_size = DEFAULT_CHUNK_SIZE
          /\ chunk_size_buffer = DEFAULT_CHUNK_SIZE_BUFFER
          /\ nodes = ExampleNodes
    /\ hp_text = <<>>
    /\ HtmlParserFresh

InitParser ==
    /\ pc = "idle"
    /\ root_url = ""
    /\ ScrapeEmpty
    /\ MakeRequestIdle
    /\ (InitParse \/ InitCombine)
    /\ TransformIdle
    /\ CanonicalIdle

NextParser ==
    \/ ParseSplit
    \/ ConvertTag
    \/ ConvertDone
    \/ CombineStart
    \/ CombineNode
    \/ CombineFinish

SpecParser == InitParser /\ [][NextParser]_vars

-----------------------------------------------------------------------------
(* Specification of get_canonical_url: a client calls it with a URL string of  *)
(* UrlStrings, then with the result.                                           *)

InitUrl ==
    /\ pc = "idle"
    /\ root_url = ""
    /\ ScrapeEmpty
    /\ MakeRequestIdle
    /\ HtmlParserIdle
    /\ TransformIdle
    /\ cu_pc = "call"
    /\ cu_url \in UrlStrings
    /\ cu_canonical = <<>>
    /\ cu_twice = <<>>

NextUrl == CanonicalCall \/ CanonicalCallAgain

SpecUrl == InitUrl /\ [][NextUrl]_vars

-----------------------------------------------------------------------------
(* Specification of the transform stage: a client calls                        *)
(* parse_into_chunks_with_html_parser or parse_into_chunks_with_openai_parser  *)
(* on a raw corpus of up to MaxPages pages.                                    *)

Letters == << "a", "b", "c", "d", "e" >>

\* the key of the i-th page of the raw corpus
PageUrlOf(i) == "https://notion.so/help/" \o Letters[i]

\* a URL that is no key of the raw corpus
AbsentUrl == "https://notion.so/help/what-is-a-block"

\* page markup: no main section; a main section without article; one article with
\* an aside; two articles, one of them nested in a division; an article whose
\* only text is in its aside; an article holding a blank paragraph and nothing else
TransformBodies ==
    { << Elem("div", << Elem("article", << Elem("p", <<Str(X(1))>>) >>) >>) >>,
      << Elem("main", << Elem("p", <<Str(X(1))>>) >>) >>,
      << Elem("main", << Elem("article",
            << Elem("aside", << Elem("li", <<Str(X(2))>>) >>),
               Elem("h1", <<Str(X(1))>>),
               Elem("p", <<Str(X(2))>>) >>) >>) >>,
      << Elem("main",
            << Elem("article", << Elem("p", <<Str(X(1))>>) >>),
               Elem("div", << Elem("article",
                     << Elem("li", <<Str(X(1))>>), Elem("li", <<Str(X(2))>>) >>) >>) >>) >>,
      << Elem("main", << Elem("article",
            << Elem("aside", << Elem("p", <<Str(X(1))>>) >>), Str(<<" ">>) >>) >>) >>,
      << Elem("main", << Elem("article", << Elem("p", <<Str(<<" ">>)>>) >>) >>) >> }

\* raw_data["results"] of data.json for a sequence of page bodies
RawResults(bodies) ==
    [i \in 1..Len(bodies) |->
        [key |-> PageUrlOf(i),
         value |-> [status_code |-> 200, checksum |-> md5(bodies[i]),
                    html_body |-> bodies[i]]]]

TransformFresh ==
    /\ tr_pc = "start"
    /\ raw_results \in { RawResults(bodies) : bodies \in SeqsUpTo(TransformBodies, MaxPages) }
    /\ tr_left = <<>>
    /\ tr_url = ""
    /\ articles_left = <<>>
    /\ page_chunks = <<>>
    /\ url_to_chunks = <<>>
    /\ tr_skipped_urls = <<>>
    /\ tr_written = <<>>

\* parse_into_chunks_with_html_parser(input_file_path, output_dir, html_parser)
InitTransformHtml ==
    /\ tr_call = HTML_PARSER
    /\ openai_parser_given = FALSE
    /\ api_key = ""
    /\ target_urls = <<>>
    /\ TransformFresh
    /\ hp_pc = "idle"
    /\ hp_call = ""
    /\ \/ chunk_size = DEFAULT_CHUNK_SIZE /\ chunk_size_buffer = DEFAULT_CHUNK_SIZE_BUFFER
       \/ chunk_size = 1 /\ chunk_size_buffer = 0
    /\ hp_text = <<>>
    /\ hp_url = ""
    /\ tags = <<>>
    /\ tags_left = <<>>
    /\ nodes = <<>>
    /\ nodes_left = <<>>
    /\ chunks = <<>>
    /\ current_chunk = NoChunk

\* parse_into_chunks_with_openai_parser(input_file_path, output_dir,
\* openai_parser, target_urls)
InitTransformOpenAI ==
    /\ tr_call = OPENAI_PARSER
    /\ openai_parser_given \in BOOLEAN
    /\ api_key \in { "", "sk-key" }
    /\ openai_parser_given => api_key = ""
    /\ target_urls \in { <<>>, << PageUrlOf(2), AbsentUrl, PageUrlOf(1) >> }
    /\ TransformFresh
    /\ HtmlParserIdle

InitTransform ==
    /\ pc = "idle"
    /\ root_url = ""
    /\ ScrapeEmpty
    /\ MakeRequestIdle
    /\ (InitTransformHtml \/ InitTransformOpenAI)
    /\ CanonicalIdle

NextTransform ==
    \/ TransformStart
    \/ TransformPage
    \/ TransformParseCall
    \/ ParseSplit
    \/ ConvertTag
    \/ ConvertDone
    \/ CombineStart
    \/ CombineNode
    \/ CombineFinish
    \/ TransformParseReturn
    \/ TransformOpenAIParse
    \/ TransformPageDone
    \/ TransformWrite

SpecTransform == InitTransform /\ [][NextTransform]_vars

-----------------------------------------------------------------------------
(* Properties of the crawl *)

Range(q) == { q[i] : i \in 1..Len(q) }

NoDuplicates(q) == \A i, j \in 1..Len(q) : i # j => q[i] # q[j]

Disjoint(A, B) == A \cap B = {}

\* C1 (as claimed): at the end of a crawl no URL is in more than one of queue,
\* visited_urls, failed_urls and skipped_urls; a failed URL is not also in visited.
C1_AllFourDisjoint ==
    pc = "done" =>
        /\ Disjoint(Range(queue), visited_urls)
        /\ Disjoint(Range(queue), failed_urls)
        /\ Disjoint(Range(queue), skipped_urls)
        /\ Disjoint(visited_urls, failed_urls)
        /\ Disjoint(visited_urls, skipped_urls)
        /\ Disjoint(failed_urls, skipped_urls)

\* C1 (amended): throughout a crawl and at its end no URL is in more than one of
\* queue, visited_urls and skipped_urls, and no failed URL is in the queue or in
\* skipped_urls; every failed URL is also in visited_urls.
C1_DisjointExceptFailedInVisited ==
    /\ Disjoint(Range(queue), visited_urls)
    /\ Disjoint(Range(queue), skipped_urls)
    /\ Disjoint(visited_urls, skipped_urls)
    /\ Disjoint(Range(queue), failed_urls)
    /\ Disjoint(failed_urls, skipped_urls)
    /\ failed_urls \subseteq visited_urls

\* a finished crawl with a failed fetch, a stored page and a skipped URL
C1_Witness ==
    /\ pc = "done"
    /\ failed_urls # {}
    /\ skipped_urls # {}
    /\ DOMAIN valid_results # {}

\* C2: every URL is enqueued at most once and fetched at most once; a URL that is
\* visited, failed or skipped is never in the queue again.
C2_EnqueuedAndFetchedOnce ==
    /\ NoDuplicates(enq_log)
    /\ NoDuplicates(fetch_log)
    /\ NoDuplicates(queue)
    /\ \A u \in Range(queue) : u \notin visited_urls \cup failed_urls \cup skipped_urls

\* a finished crawl of three pages: the second page links again to a URL the
\* seed's page had put into skipped_urls, the third links to itself and to the
\* second page, both visited by then
C2_Witness ==
    /\ pc = "done"
    /\ Len(fetch_log) = 3
    /\ DOMAIN valid_results = Range(fetch_log)
    /\ LET body1 == valid_results[fetch_log[1]].html_body
           body2 == valid_results[fetch_log[2]].html_body
           body3 == valid_results[fetch_log[3]].html_body
       IN  /\ Len(body1) = 2 /\ Len(body2) = 2 /\ Len(body3) = 2
           /\ get_canonical_url(body1[2]) \in skipped_urls
           /\ body2[2] = body1[2]
           /\ get_canonical_url(body3[1]) = fetch_log[3]
           /\ get_canonical_url(body3[2]) = fetch_log[2]

\* C3: URLs are popped and fetched in the order they were enqueued: the fetch
\* order is a prefix of the enqueue order, and the queue is the rest of it.
C3_FifoOrder ==
    /\ Len(fetch_log) <= Len(enq_log)
    /\ \A i \in 1..Len(fetch_log) : fetch_log[i] = enq_log[i]
    /\ queue = SubSeq(enq_log, Len(fetch_log) + 1, Len(enq_log))

\* the seed links to A then B: the crawl fetched the seed, then A, then B, and
\* both A and B were in the queue together
C3_Witness ==
    /\ pc = "done"
    /\ root_url = "https://www.notion.so/help?x"
    /\ fetch_log = << "https://www.notion.so/help?x", "https://notion.so/help/a",
                      "https://notion.so/help" >>
    /\ DOMAIN valid_results = Range(fetch_log)
    /\ valid_results[root_url].html_body = << "//www.notion.so/help/a?x=1#f", "/help" >>
    /\ valid_results["https://notion.so/help/a"].html_body = << "/help", "/blog" >>

-----------------------------------------------------------------------------
(* Properties of make_request and of the way scrape uses it *)

Gets == { i \in 1..Len(trace) : trace[i].op = "get" }
Sleeps == { i \in 1..Len(trace) : trace[i].op = "sleep" }

\* C4: with max_attempts >= 1, when the first k attempts fail and attempt k+1
\* succeeds, the call made k+1 GETs and k sleeps, the i-th sleep lasts
\* backoff_factor * 2^(i-1) and lies between GET i and GET i+1, and the response
\* of attempt k+1 is returned (1 and 2 for two failures with backoff_factor 1).
C4_BackoffThenSuccess ==
    (mr_pc = "returned" /\ max_attempts >= 1) =>
        LET k == Cardinality(Gets) - 1
        IN  /\ k < max_attempts
            /\ Cardinality(Sleeps) = k
            /\ Len(trace) = 2 * k + 1
            /\ \A i \in 1..k :
                  /\ trace[2 * i - 1] = [op |-> "get", attempt |-> i, delay |-> 0]
                  /\ trace[2 * i].op = "sleep"
                  /\ trace[2 * i].delay = backoff_factor * (2 ^ (i - 1))
            /\ trace[2 * k + 1] = [op |-> "get", attempt |-> k + 1, delay |-> 0]
            /\ response.kind = "Response"
            /\ response.attempt = k + 1
            /\ (backoff_factor = 1 /\ k = 2 =>
                   <<trace[2].delay, trace[4].delay>> = <<1, 2>>)

\* two failures, then success at the third attempt, backoff_factor 1, asked for
\* directly with max_attempts = 4
C4_Witness ==
    /\ pc = "idle"
    /\ mr_pc = "returned"
    /\ max_attempts = 4
    /\ backoff_factor = 1
    /\ Cardinality(Gets) = 3
    /\ Cardinality(Sleeps) = 2

C6_FailedFetchIsolated ==
    /\ [][(pc = "fetch" /\ mr_pc = "raised") =>
              /\ failed_urls' = failed_urls \cup {url}
              /\ valid_results' = valid_results
              /\ url \notin DOMAIN valid_results'
              /\ queue' = queue
              /\ skipped_urls' = skipped_urls
              /\ visited_urls' = visited_urls
              /\ pc' = "loop"]_vars
    /\ [](Disjoint(failed_urls, DOMAIN valid_results))

\* a failed fetch of the seed's first link was followed by a successful fetch of
\* the next queue entry
C6_Witness ==
    /\ pc = "done"
    /\ Len(fetch_log) >= 3
    /\ fetch_log[2] \in failed_urls
    /\ fetch_log[3] \in DOMAIN valid_results

\* C7: if the seed does not satisfy is_valid_url, scrape fails before any HTTP
\* request, before any crawl state is populated and before any file is written.
C7_InvalidSeedFailsFirst ==
    (pc # "idle" /\ ~is_valid_url(root_url)) =>
        /\ pc \in {"start", "ValueError"}
        /\ mr_pc = "idle"
        /\ trace = <<>>
        /\ fetch_log = <<>>
        /\ queue = <<>>
        /\ visited_urls = {}
        /\ failed_urls = {}
        /\ skipped_urls = {}
        /\ valid_results = EmptyDict
        /\ written = <<>>

\* scrape has raised ValueError for a seed under /help that contains notion-academy
C7_Witness ==
    /\ pc = "ValueError"
    /\ root_url = "https://notion.so/help/notion-academy"

-----------------------------------------------------------------------------
(* Properties of HtmlParser *)

Ceiling == chunk_size + chunk_size_buffer

\* C8 (as claimed): a chunk is longer than chunk_size + chunk_size_buffer only if
\* it consists of exactly one node of an inseparable tag whose own text exceeds
\* the ceiling; no chunk made of an h1-h6 or p node exceeds it.
C8_OnlyInseparableRunExceeds ==
    \A i \in 1..Len(chunks) :
        Len(chunks[i].text) > Ceiling =>
            /\ Len(chunks[i].nodes) = 1
            /\ chunks[i].nodes[1].tag \in DEFAULT_INSEPARABLE_TAGS
            /\ Len(chunks[i].nodes[1].text) > Ceiling

\* C8 (amended): a chunk is longer than chunk_size + chunk_size_buffer only if it
\* consists of exactly one node, of whatever tag, whose own stripped text exceeds
\* the ceiling; a chunk of two or more nodes never exceeds it.
C8_OnlySingleNodeExceeds ==
    \A i \in 1..Len(chunks) :
        /\ chunks[i].nodes # <<>>
        /\ Len(chunks[i].text) > Ceiling =>
              /\ Len(chunks[i].nodes) = 1
              /\ Len(strip(chunks[i].nodes[1].text)) > Ceiling
        /\ Len(chunks[i].nodes) >= 2 => Len(chunks[i].text) <= Ceiling

\* the packer returned a chunk of two nodes and a chunk that exceeds the ceiling
\* and holds a single p node
C8_Witness ==
    /\ hp_pc = "done"
    /\ \E i \in 1..Len(chunks) : Len(chunks[i].nodes) >= 2
    /\ \E i \in 1..Len(chunks) :
          /\ Len(chunks[i].text) > Ceiling
          /\ chunks[i].nodes[1].tag = "p"

\* C9: no chunk has an empty trimmed text, and parse of a fragment whose text is
\* empty or blank, or that has no captured tag with text, gives no node and no chunk.
C9_NoEmptyChunk ==
    /\ \A i \in 1..Len(chunks) : strip(chunks[i].text) # <<>>
    /\ \A i \in 1..Len(nodes) : hp_call = "parse" => strip(nodes[i].text) # <<>>
    /\ (hp_call = "parse" /\ hp_pc = "done"
            /\ (strip(get_text_of_all(hp_text)) = <<>> \/ tags = <<>>)) =>
           (nodes = <<>> /\ chunks = <<>>)

\* parse returned for a fragment of blank strings and blank paragraphs only; and
\* the packer returned after it met a node too long for the empty first chunk
C9_WitnessBlank ==
    /\ hp_call = "parse"
    /\ hp_pc = "done"
    /\ Len(hp_text) = 2
    /\ hp_text[1] = Str(<<" ">>)
    /\ hp_text[2].name = "p"
    /\ strip(get_text_of_all(hp_text)) = <<>>

C9_Witness ==
    /\ hp_call = "parse"
    /\ hp_pc = "done"
    /\ nodes # <<>>
    /\ Len(strip(nodes[1].text)) + 1 > Ceiling
    /\ Len(chunks) = Len(nodes)

\* C10: a node is appended to the current chunk exactly when the length of the
\* current text plus the length of the node's trimmed, newline-terminated text is
\* at most chunk_size + chunk_size_buffer; otherwise the current chunk is
\* committed and a new one starts with that node. So for two consecutive chunks
\* the text accumulated for the earlier one plus the first node of the later one
\* exceeds the ceiling, and the nodes of 10, 740 and 50 characters with 750/30
\* give the chunks {10 + 740} and {50}.
C10_GreedyStep ==
    (hp_pc = "loop" /\ nodes_left # <<>> /\ strip(Head(nodes_left).text) # <<>>) =>
        LET node == Head(nodes_left)
            t == strip(node.text) \o <<Newline>>
            fits == Len(current_chunk.text) + Len(strip(node.text)) + 1 <= Ceiling
        IN  /\ nodes_left' = Tail(nodes_left)
            /\ fits =>
                  /\ current_chunk'.nodes = Append(current_chunk.nodes, node)
                  /\ current_chunk'.text = current_chunk.text \o t
                  /\ chunks' = chunks
            /\ ~fits =>
                  /\ current_chunk'.nodes = <<node>>
                  /\ current_chunk'.text = t
                  /\ chunks' = IF current_chunk.text = <<>>
                               THEN chunks
                               ELSE Append(chunks, [current_chunk EXCEPT
                                                       !.text = strip(current_chunk.text)])

C10_ConsecutiveChunks ==
    hp_pc = "done" =>
        /\ \A i \in 1..(Len(chunks) - 1) :
              Len(chunks[i].text) + 1 + Len(strip(chunks[i + 1].nodes[1].text)) + 1 > Ceiling
        /\ nodes = ExampleNodes =>
              /\ Len(chunks) = 2
              /\ chunks[1].nodes = << ExampleNodes[1], ExampleNodes[2] >>
              /\ chunks[2].nodes = << ExampleNodes[3] >>

C10_Greedy == [][C10_GreedyStep]_vars /\ []C10_ConsecutiveChunks

\* the example: three nodes of 10, 740 and 50 characters packed with 750/30
C10_Witness ==
    /\ hp_pc = "done"
    /\ chunk_size = 750
    /\ chunk_size_buffer = 30
    /\ nodes = ExampleNodes
    /\ Len(chunks) = 2
    /\ Len(chunks[1].text) = 749
    /\ Len(chunks[2].text) = 49

-----------------------------------------------------------------------------
(* Properties of the merge of list items *)

\* the nodes the packer does not pass over, and the nodes of all chunks in order
PackedNodes == SelectSeq(nodes, LAMBDA n : strip(n.text) # <<>>)

RECURSIVE NodesOfChunks(_)
NodesOfChunks(cs) == IF cs = <<>> THEN <<>> ELSE Head(cs).nodes \o NodesOfChunks(Tail(cs))

\* the text a chunk accumulates from its nodes, before the trim of _commit_chunk
RECURSIVE TextOfNodes(_)
TextOfNodes(ns) ==
    IF ns = <<>> THEN <<>>
    ELSE strip(Head(ns).text) \o <<Newline>> \o TextOfNodes(Tail(ns))

\* the newline-terminated trimmed texts of a list of tags, concatenated
RECURSIVE TextOfTags(_)
TextOfTags(ts) ==
    IF ts = <<>> THEN <<>>
    ELSE strip(get_text(Head(ts))) \o <<Newline>> \o TextOfTags(Tail(ts))

\* a node of an inseparable tag whose own text exceeds the ceiling
OversizedRun(n) ==
    /\ n.tag \in DEFAULT_INSEPARABLE_TAGS
    /\ Len(strip(n.text)) + 1 > Ceiling

\* parse merged every run of adjacent list items into one node
C11_RunsMerged ==
    (hp_call = "parse" /\ hp_pc \in { "combine", "loop", "done" }) =>
        /\ \A i \in 1..(Len(nodes) - 1) :
              ~(nodes[i].tag \in DEFAULT_INSEPARABLE_TAGS /\ nodes[i + 1].tag = nodes[i].tag)
        /\ nodes # <<>> =>
              nodes[1].tag = tags[1].name
        /\ TextOfNodes(nodes) = TextOfTags(tags)
        /\ \A i \in 1..Len(nodes) : nodes[i].text = strip(nodes[i].text) \o <<Newline>>

\* no node is split: the chunks hold the nodes, each one whole and once, in order
C11_NoNodeSplit ==
    hp_pc = "done" =>
        /\ NodesOfChunks(chunks) = PackedNodes
        /\ \A i \in 1..Len(chunks) : chunks[i].text = strip(TextOfNodes(chunks[i].nodes))

\* an oversized run is a chunk of its own
C11_OversizedRunAlone ==
    hp_pc = "done" =>
        \A i \in 1..Len(chunks) : \A j \in 1..Len(chunks[i].nodes) :
            OversizedRun(chunks[i].nodes[j]) =>
                /\ Len(chunks[i].nodes) = 1
                /\ chunks[i].text = strip(chunks[i].nodes[1].text)

\* C11 (as claimed): a run of adjacent list items is merged into one node and is
\* never split across chunks; a run whose text exceeds chunk_size +
\* chunk_size_buffer is one chunk holding the whole run and nothing else, and the
\* chunks immediately before and after it each respect the ceiling.
C11_NeighboursRespectCeiling ==
    /\ C11_RunsMerged
    /\ C11_NoNodeSplit
    /\ C11_OversizedRunAlone
    /\ hp_pc = "done" =>
          \A i \in 1..Len(chunks) :
              OversizedRun(chunks[i].nodes[1]) =>
                  \A k \in { i - 1, i + 1 } \cap (1..Len(chunks)) :
                      Len(chunks[k].text) <= Ceiling

\* C11 (amended): a run of adjacent list items is merged into one node and is
\* never split across chunks; a run whose text exceeds chunk_size +
\* chunk_size_buffer is one chunk holding the whole run and nothing else, and the
\* chunk immediately before it and the one after it respect the ceiling unless
\* they hold a single node whose own text exceeds the ceiling.
C11_RunKeptWhole ==
    /\ C11_RunsMerged
    /\ C11_NoNodeSplit
    /\ C11_OversizedRunAlone
    /\ hp_pc = "done" =>
          \A i \in 1..Len(chunks) :
              OversizedRun(chunks[i].nodes[1]) =>
                  \A k \in { i - 1, i + 1 } \cap (1..Len(chunks)) :
                      \/ Len(chunks[k].text) <= Ceiling
                      \/ /\ Len(chunks[k].nodes) = 1
                         /\ Len(strip(chunks[k].nodes[1].text)) > Ceiling

\* the list example: five items merged into one node of 900 characters, packed
\* with 750/30 into a chunk of its own between the chunks of the two paragraphs
C11_Witness ==
    /\ hp_call = "parse"
    /\ hp_pc = "done"
    /\ hp_text = ListExample
    /\ Len(tags) = 7
    /\ Len(nodes) = 3
    /\ Len(nodes[2].text) = 900
    /\ Len(chunks) = 3
    /\ chunks[2].nodes = << nodes[2] >>
    /\ Len(chunks[1].text) = 100
    /\ Len(chunks[3].text) = 100

-----------------------------------------------------------------------------
(* Properties of get_canonical_url *)

\* a query, a fragment, and both
QuerySuffixes == { << "?", "h" >>, << "#", "h" >>, << "?", "h", "#", "/" >> }

\* C14: get_canonical_url(get_canonical_url(u)) = get_canonical_url(u) for every
\* URL string u, absolute, protocol-relative or relative, and two URLs that differ
\* only in query or fragment have the same canonical URL.
C14_CanonicalIdempotent ==
    /\ cu_pc = "twice" => cu_twice = cu_canonical
    /\ cu_pc = "ValueError" => cu_canonical = <<>>
    /\ (cu_pc = "once" /\ Find(cu_url, "?") = 0 /\ Find(cu_url, "#") = 0) =>
          \A q \in QuerySuffixes : get_canonical_url_chars(cu_url \o q) = cu_canonical

\* a relative href without a leading slash: its canonical URL has another host,
\* and the canonical URL of that is the bare host
C14_Witness ==
    /\ cu_pc = "twice"
    /\ cu_url = << "h", "/", "h" >>
    /\ cu_canonical = CanonicalPrefix \o << "h", "/", "h" >>
    /\ cu_twice = CanonicalPrefix \o << "/", "h" >>

-----------------------------------------------------------------------------
(* Accounting of the crawl *)

\* C23: at every iteration boundary and at the end of scrape(), failed_urls is a
\* subset of visited_urls and the keys of the results are visited_urls without
\* failed_urls; so in the report visited_count = success_count + failed_count.
C23_VisitedIsSuccessPlusFailed ==
    /\ pc \in { "loop", "links", "done", UrlparseError } =>
          /\ failed_urls \subseteq visited_urls
          /\ DOMAIN valid_results = visited_urls \ failed_urls
    /\ pc = "done" =>
          \A i \in 1..Len(written) :
              LET metadata == written[i].metadata
              IN  /\ metadata.visited_count = metadata.success_count + metadata.failed_count
                  /\ metadata.visited_count = Cardinality(visited_urls)
                  /\ metadata.failed_count = Cardinality(failed_urls)
                  /\ metadata.success_count = Cardinality(visited_urls \ failed_urls)

\* a finished crawl of three URLs whose report counts two stored pages and one
\* failed fetch
C23_Witness ==
    /\ pc = "done"
    /\ written[1].metadata.visited_count = 3
    /\ written[1].metadata.success_count = 2
    /\ written[1].metadata.failed_count = 1
    /\ Cardinality(DOMAIN valid_results) = 2

\* scrape() has returned, or an exception raised in the loop has left it
Terminated == pc \in { "done", UrlparseError }

\* the canonical URLs of the anchors of the stored pages
LinkedUrls ==
    UNION { { get_canonical_url(body[i]) : i \in { j \in 1..Len(body) : ~urlparse_raises(body[j]) } } :
            body \in { valid_results[u].html_body : u \in DOMAIN valid_results } }

C24_AtEnd ==
    Terminated =>
        /\ visited_urls = {root_url} \cup { u \in LinkedUrls : is_valid_url(u) }
        /\ skipped_urls = { u \in LinkedUrls : ~is_valid_url(u) }
        /\ \A i \in 1..Len(fetch_log) : is_valid_url(fetch_log[i])
        /\ queue = <<>>

\* C24: when scrape() terminates, visited_urls holds the seed and every
\* canonical URL in scope that a stored page links to, and nothing else;
\* skipped_urls holds exactly the canonical URLs out of scope that stored pages
\* link to; every URL put into the queue is eventually fetched, no URL out of
\* scope is fetched, and the queue is empty.
C24_VisitedIsReachableSet ==
    /\ []C24_AtEnd
    /\ (pc = "loop") ~> (Terminated /\ Range(enq_log) = Range(fetch_log))

\* the crawl ended at an href that urlparse rejects, with a discovered URL still
\* in the queue and the rest of the page's anchors unread
C24_Witness ==
    /\ pc = UrlparseError
    /\ queue # <<>>
    /\ Len(links) = 2
    /\ Range(enq_log) # Range(fetch_log)

-----------------------------------------------------------------------------
(* Classification of the links of a fetched page *)

\* C18: for an href whose canonical URL is already in visited_urls, skipped_urls
\* or the queue, the step that processes it leaves queue, visited_urls,
\* failed_urls, skipped_urls and the results as they are; otherwise a canonical
\* URL in scope is appended at the tail of the queue and one out of scope is
\* added to skipped_urls, and nothing else changes.
C18_LinkFrame ==
    [][(pc = "links" /\ links # <<>> /\ ~urlparse_raises(Head(links))) =>
          LET canonical_url == get_canonical_url(Head(links))
              known == visited_urls \cup skipped_urls \cup Range(queue)
          IN  /\ visited_urls' = visited_urls
              /\ failed_urls' = failed_urls
              /\ valid_results' = valid_results
              /\ links' = Tail(links)
              /\ <<pc, url, root_url, written, fetch_log>>' =
                     <<pc, url, root_url, written, fetch_log>>
              /\ canonical_url \in known =>
                     queue' = queue /\ skipped_urls' = skipped_urls
              /\ (canonical_url \notin known /\ is_valid_url(canonical_url)) =>
                     queue' = Append(queue, canonical_url) /\ skipped_urls' = skipped_urls
              /\ (canonical_url \notin known /\ ~is_valid_url(canonical_url)) =>
                     queue' = queue /\ skipped_urls' = skipped_urls \cup {canonical_url}]_vars

\* the seed's page put two URLs into the queue, the second behind the first; the
\* next page linked to the queued URL again, then to a URL out of scope
C18_Witness ==
    /\ pc = "links"
    /\ links = <<>>
    /\ root_url = "https://www.notion.so/help?x"
    /\ url = "https://notion.so/help"
    /\ enq_log = << root_url, "https://notion.so/help", "https://notion.so/help/a" >>
    /\ valid_results[root_url].html_body = << "/help", "//www.notion.so/help/a?x=1#f" >>
    /\ valid_results[url].html_body = << "//www.notion.so/help/a?x=1#f", "/blog" >>
    /\ queue = << "https://notion.so/help/a" >>
    /\ skipped_urls = { "https://notion.so/blog" }

\* C19: when an href has no canonical URL (the attribute is missing or urlparse
\* rejects it), the step that processes it adds the raw href itself to
\* skipped_urls, enqueues nothing and the crawl goes on.
C19_RawHrefSkipped ==
    [][(pc = "links" /\ links # <<>> /\ Head(links) \in { None, BadHref }) =>
          /\ skipped_urls' = skipped_urls \cup { Head(links) }
          /\ queue' = queue
          /\ pc' = pc]_vars

\* an anchor without href has been processed: what was added to skipped_urls is
\* the formatted path of None behind the fixed prefix, not the raw href
C19_Witness ==
    /\ pc = "links"
    /\ valid_results[url].html_body = << None >>
    /\ links = <<>>
    /\ skipped_urls = { "https://notion.sob''" }
    /\ None \notin skipped_urls

\* C20: every URL held in the queue, visited_urls, failed_urls and the results
\* is a canonical URL, the seed included, and no two fetches are of URLs with
\* the same canonical form (the seed's page is not fetched a second time).
C20_CrawlStateCanonical ==
    /\ \A u \in Range(queue) \cup visited_urls \cup failed_urls \cup DOMAIN valid_results :
           get_canonical_url(u) = u
    /\ \A i, j \in 1..Len(fetch_log) :
           get_canonical_url(fetch_log[i]) = get_canonical_url(fetch_log[j]) => i = j

\* the seed was given with host www and a query: it was fetched as given, and
\* its page was fetched again under its canonical form
C20_Witness ==
    /\ root_url = "https://www.notion.so/help?x"
    /\ fetch_log = << root_url, get_canonical_url(root_url) >>
    /\ root_url \in visited_urls
    /\ DOMAIN valid_results = { root_url, "https://notion.so/help" }

-----------------------------------------------------------------------------
(* Status codes and retries *)

IsSuccessStatus(status_code) == status_code >= 200 /\ status_code < 300

\* C15: make_request returns a response only when its status is 2xx and raises
\* for every other status, so every RawPage of the results has a 2xx status_code.
C15_OnlySuccessStored ==
    /\ mr_pc = "returned" /\ response # NoResponse => IsSuccessStatus(response.status_code)
    /\ \A u \in DOMAIN valid_results : IsSuccessStatus(valid_results[u].status_code)

\* the results hold a page stored with status 304
C15_Witness ==
    /\ pc = "done"
    /\ \E u \in DOMAIN valid_results :
          /\ valid_results[u].status_code = 304
          /\ u \notin failed_urls

\* C16: make_request sleeps and issues another GET only after a transient error
\* (a connection error, or an HTTP status that is no 4xx client error); after an
\* attempt that failed with an HTTP 4xx status it does not back off and does not
\* issue another GET, though the attempt is counted.
C16_NoRetryAfterClientError ==
    [][(mr_pc = "while" /\ mr_pc' = "sleep") =>
          ~(error'.kind = "HTTPError" /\ error'.status_code >= 400
                /\ error'.status_code < 500)]_vars

\* make_request sleeps after an attempt answered with 404
C16_Witness ==
    /\ mr_pc = "sleep"
    /\ error.kind = "HTTPError"
    /\ error.status_code = 404
    /\ attempt < max_attempts

-----------------------------------------------------------------------------
(* Termination of the crawl *)

\* C13: once the loop of scrape() has started it terminates: the queue becomes
\* empty and the loop is left, after at most one iteration per distinct URL,
\* whatever fetches succeed or fail.
C13_CrawlLoopTerminates ==
    /\ [](Len(fetch_log) = Cardinality(Range(fetch_log)))
    /\ (pc = "loop") ~> (pc = "done" /\ queue = <<>>)

-----------------------------------------------------------------------------
(* Properties of the transform stage *)

\* the URLs of the raw corpus whose page has no main section or no article in it
ExtractionFails == { raw_results[i].key : i \in { j \in 1..Len(raw_results) :
                        extract_articles_raises(raw_results[j].value.html_body) } }

C12_SkipStep ==
    (/\ tr_pc = "loop"
     /\ tr_left # <<>>
     /\ extract_articles_raises(Head(tr_left).value.html_body)) =>
        /\ tr_skipped_urls' = Append(tr_skipped_urls, Head(tr_left).key)
        /\ url_to_chunks' = url_to_chunks
        /\ tr_left' = Tail(tr_left)
        /\ tr_pc' = "loop"

C12_Report ==
    (tr_call = HTML_PARSER /\ tr_pc = "done") =>
        LET metadata == tr_written[1].metadata
            success == Range(metadata.success_urls)
            skipped == Range(metadata.skipped_urls)
        IN  /\ success \cup skipped = Range(Keys(raw_results))
            /\ success \cap skipped = {}
            /\ NoDuplicates(metadata.success_urls)
            /\ NoDuplicates(metadata.skipped_urls)
            /\ metadata.success_count + metadata.skipped_count = metadata.total_count
            /\ metadata.total_count = Len(raw_results)
            /\ skipped = ExtractionFails
            /\ tr_written[2].metadata = metadata
            /\ Range(Keys(tr_written[2].results)) = success

\* C12: in the transform stage a page without a main section or without an
\* article in it is appended to skipped_urls and the loop goes on with the next
\* page; in the report every URL of the corpus is in exactly one of success_urls
\* and skipped_urls, success_count + skipped_count = total_count, and
\* skipped_urls holds exactly the pages whose extraction failed.
C12_SkippedExactlyFailed == [][C12_SkipStep]_vars /\ []C12_Report

\* a finished transform of three pages: the first has no main section, the second
\* no article, the third was chunked after them
C12_Witness ==
    /\ tr_call = HTML_PARSER
    /\ tr_pc = "done"
    /\ Len(raw_results) = 3
    /\ find_all(raw_results[1].value.html_body, "main") = <<>>
    /\ find_all(raw_results[2].value.html_body, "main") # <<>>
    /\ tr_skipped_urls = << PageUrlOf(1), PageUrlOf(2) >>
    /\ Keys(url_to_chunks) = << PageUrlOf(3) >>
    /\ url_to_chunks[1].value # <<>>

\* C17: an error raised while one URL is processed (its fetch, its links, its
\* articles, its chunking by HtmlParser or by OpenAIParser) is caught and recorded
\* and the run goes on with the next URL: a run of scrape() ends early only with
\* the ValueError of the seed validation, a run of the transform only with the
\* RuntimeError of the missing API key.
C17_PerUrlErrorsCaught ==
    /\ pc \in { "idle", "start", "loop", "fetch", "links", "done", "ValueError" }
    /\ tr_pc \in { "idle", "start", "loop", "articles", "parse", "done", "RuntimeError" }

\* the transform ended with the error of the remote parser on the second page:
\* the first page is chunked, a page is left, nothing is written
C17_Witness ==
    /\ tr_call = OPENAI_PARSER
    /\ tr_pc = "JSONDecodeError"
    /\ Len(url_to_chunks) = 1
    /\ tr_url = PageUrlOf(2)
    /\ tr_left # <<>>
    /\ tr_skipped_urls = <<>>
    /\ tr_written = <<>>

\* the page has a main section with an article in it, and no text but white space
ZeroVisibleText(html_body) ==
    /\ ~extract_articles_raises(html_body)
    /\ strip(get_text_of_all(html_body)) = <<>>

\* C22: in the transform stage a page with a main section holding an article but
\* with no visible text is skipped: its URL is in skipped_urls of the report and
\* neither in success_urls nor a key of the results.
C22_ZeroTextPageSkipped ==
    (tr_call = HTML_PARSER /\ tr_pc = "done") =>
        \A i \in 1..Len(raw_results) :
            ZeroVisibleText(raw_results[i].value.html_body) =>
                /\ raw_results[i].key \in Range(tr_written[1].metadata.skipped_urls)
                /\ raw_results[i].key \notin Range(tr_written[1].metadata.success_urls)
                /\ ~HasKey(tr_written[2].results, raw_results[i].key)

\* a finished transform of one page without visible text: its URL is a key of the
\* results with an empty list of chunks, and nothing is skipped
C22_Witness ==
    /\ tr_call = HTML_PARSER
    /\ tr_pc = "done"
    /\ Len(raw_results) = 1
    /\ ZeroVisibleText(raw_results[1].value.html_body)
    /\ tr_written[2].results = << [key |-> PageUrlOf(1), value |-> <<>>] >>
    /\ tr_written[1].metadata.success_urls = << PageUrlOf(1) >>
    /\ tr_written[1].metadata.skipped_urls = <<>>

-----------------------------------------------------------------------------
(* Properties of _convert_tags_to_nodes *)

\* the tag about to be converted continues the node emitted last
ContinuesLastNode(tag) ==
    /\ nodes # <<>>
    /\ nodes[Len(nodes)].tag = tag.name
    /\ tag.name \in DEFAULT_INSEPARABLE_TAGS

\* one iteration of the loop: the text is concatenated into the last node exactly
\* when the tag continues it, and otherwise a node of its own is appended
C21_MergeStep ==
    (hp_pc = "convert" /\ tags_left # <<>>) =>
        LET tag == Head(tags_left)
            tag_text == strip(get_text(tag)) \o <<Newline>>
            concatenated ==
                /\ Len(nodes') = Len(nodes)
                /\ nodes # <<>>
                /\ nodes'[Len(nodes)].text = nodes[Len(nodes)].text \o tag_text
                /\ nodes'[Len(nodes)].tag = nodes[Len(nodes)].tag
                /\ SubSeq(nodes', 1, Len(nodes) - 1) = SubSeq(nodes, 1, Len(nodes) - 1)
        IN  /\ concatenated <=> ContinuesLastNode(tag)
            /\ ~ContinuesLastNode(tag) => nodes' = Append(nodes, Node(tag_text, tag.name))
            /\ hp_pc' = "convert"
            /\ tags_left' = Tail(tags_left)

\* the positions of the captured tags at which a node starts
NodeStarts ==
    { i \in 1..Len(tags) :
        \/ i = 1
        \/ tags[i].name # tags[i - 1].name
        \/ tags[i].name \notin DEFAULT_INSEPARABLE_TAGS }

\* the nodes returned: one per start, none with an empty text, each contributed
\* text ending with a newline, and two nodes for two adjacent tags of the same
\* name that is not inseparable
C21_NodesReturned ==
    /\ hp_call = "parse" =>
          \A i \in 1..Len(nodes) :
              /\ strip(nodes[i].text) # <<>>
              /\ nodes[i].text[Len(nodes[i].text)] = Newline
    /\ (hp_call = "parse" /\ hp_pc \in { "combine", "loop", "done" }) =>
          /\ Len(nodes) = Cardinality(NodeStarts)
          /\ TextOfNodes(nodes) = TextOfTags(tags)
          /\ \A i \in 1..(Len(nodes) - 1) :
                nodes[i].tag = nodes[i + 1].tag => nodes[i].tag \notin DEFAULT_INSEPARABLE_TAGS

\* C21: in _convert_tags_to_nodes the text of a captured element is concatenated
\* into the node emitted last if and only if its tag equals that node's tag and
\* the tag is inseparable; two adjacent elements of the same tag that is not
\* inseparable yield two nodes; every node's text is non-empty and every
\* contributed text ends with a newline.
C21_MergeIffInseparable == [][C21_MergeStep]_vars /\ []C21_NodesReturned

\* two paragraphs followed by a list of two items: three nodes, the paragraphs
\* apart and the items together
C21_Witness ==
    /\ hp_call = "parse"
    /\ hp_pc = "done"
    /\ Len(tags) = 4
    /\ tags[1].name = "p" /\ tags[2].name = "p"
    /\ tags[3].name = "li" /\ tags[4].name = "li"
    /\ Len(nodes) = 3
    /\ nodes[1].tag = "p" /\ nodes[2].tag = "p"
    /\ nodes[3].text = X(1) \o <<Newline>> \o X(2) \o <<Newline>>

-----------------------------------------------------------------------------
(* Properties of _combine_nodes_into_chunks *)

\* the trimmed texts of a list of nodes, joined by newlines
RECURSIVE JoinTrimmed(_)
JoinTrimmed(ns) ==
    IF ns = <<>> THEN <<>>
    ELSE IF Len(ns) = 1 THEN strip(ns[1].text)
    ELSE strip(ns[1].text) \o <<Newline>> \o JoinTrimmed(Tail(ns))

\* C25: _combine_nodes_into_chunks partitions its input in order: the node lists
\* of the chunks, concatenated, are the input nodes without those whose trimmed
\* text is empty, none dropped, repeated or moved; while the loop runs, the nodes
\* of the committed chunks, of the current chunk and of the rest of the input
\* make up that sequence; the text of a chunk is the trimmed texts of its nodes
\* joined by newlines, and every chunk has the metadata {url} of the call.
C25_ChunksPartitionNodes ==
    /\ hp_pc = "loop" =>
          NodesOfChunks(chunks) \o current_chunk.nodes
              \o SelectSeq(nodes_left, LAMBDA n : strip(n.text) # <<>>) = PackedNodes
    /\ hp_pc = "done" =>
          /\ NodesOfChunks(chunks) = PackedNodes
          /\ \A i \in 1..Len(chunks) :
                /\ chunks[i].nodes # <<>>
                /\ chunks[i].text = JoinTrimmed(chunks[i].nodes)
                /\ chunks[i].metadata = [url |-> hp_url]

\* the packer returned for a paragraph, a node of white space and a list node:
\* one chunk of the two nodes with text, joined by a newline
C25_Witness ==
    /\ hp_call = "_combine_nodes_into_chunks"
    /\ hp_pc = "done"
    /\ nodes = << Node(X(1) \o <<Newline>>, "p"), Node(<<Newline>>, "p"),
                  Node(X(2) \o <<Newline>>, "li") >>
    /\ Len(chunks) = 1
    /\ chunks[1].nodes = << nodes[1], nodes[3] >>
    /\ chunks[1].text = X(1) \o <<Newline>> \o X(2)
    /\ chunks[1].metadata.url = PageUrl

====
